---- MODULE Spec2Model ----
(***************************************************************************)
(* Model of the assistant bot: the bounded conversation store, the         *)
(* tool-calling conversation loop, the calendar reconciliation of the      *)
(* reminder scheduler and the watcher tick.                                *)
(***************************************************************************)
EXTENDS Integers, Sequences, FiniteSets, TLC

(***************************************************************************)
(* Program constants                                                       *)
(***************************************************************************)
\* history.py: `if len(history) > 50: history = history[-50:]`
MAX_HISTORY == 50
\* client.py: `if depth > 5:` in _process_response
MAX_DEPTH == 5
\* config.py: llm_max_retries
MAX_RETRIES == 3

(***************************************************************************)
(* Bounds of the model                                                     *)
(***************************************************************************)
\* number of messages the store clients may create in one behaviour
MaxSeq == 53
\* longest list handed to append_many
MaxMany == 2
\* reminders the add flow may leave in the storage at a time
MaxReminders == 2
\* reconciliation passes of one behaviour
MaxPasses == 2
\* messages posted to the watched chats in one behaviour
MaxMsgs == 5
MaxTurns == 2
MaxStarts == 2
\* LLM responses persisted in one behaviour
MaxPersist == 3
\* reminder jobs fired in one behaviour
MaxFires == 2
\* inactivity markers that expire in one behaviour
MaxExpiries == 2
\* message texts of the turns that run beside the summarization worker
MaxWorkerTexts == 3
\* times the application stops its summarization worker in one behaviour
MaxWorkerStops == 1
\* messages of the batch handed to the filter LLM
BatchLen == 2
\* longest answer of the filter LLM, in tokens
MaxTokens == 4
\* inbound messages the rate-limit handling sees in one behaviour
MaxInbound == 2
\* pending confirmations saved in one behaviour
MaxPending == 1
\* ticks that update one watcher in one behaviour
MaxChecks == 2

\* the elements of a list
Range(seq) == {seq[i] : i \in DOMAIN seq}

\* owners of conversations
ConvOwners == {1}
\* system prompts: the template formatted with timezone 0 ("unknown") or 1
Prompts == {0, 1}
\* summary texts the LLM may write
Summaries == {0, 1}

VARIABLES
    conversation,   \* Redis key conversation:{user_id}: the stored message list
    ttl_marker,     \* Redis key conversation_ttl:{user_id}: the inactivity marker exists
    msg_seq,        \* number of message texts created so far (texts are numbered)
    last_op,        \* the store operation that produced the current state
    pc,             \* position of the turn: idle, call_llm, done, raised, replied
    turn_owner,     \* user_id of the turn in progress
    history,        \* chat(): the in-memory `history` list handed to the LLM
    depth,          \* depth argument of the next _process_response
    llm_calls,      \* number of _call_llm invocations of the turn
    llm_trace,      \* outcomes the provider gave to the attempts of the last _call_llm
    last_exec,      \* tool calls executed while processing the last response
    exit,           \* the return statement that ended the turn
    reply,          \* value returned by chat()
    raised,         \* exception that left chat()
    sent,           \* texts handed to message.answer
    reminders,      \* Redis keys reminder:{id}: the stored reminder records
    user_index,     \* Redis sets user_reminders:{user_id}: ids of the user's reminders
    schedules,      \* schedules registered with the scheduler
    next_id,        \* the next reminder id (ids are fresh)
    calendar,       \* the items events.list answers with, per user
    credentials,    \* what get_credentials gives, per user
    passes,         \* reconciliation passes run so far
    pass_users,     \* user_ids of the last pass
    pass_log,       \* the jobs left by each pass since the last add_reminder
    add_result,     \* the request and the outcome of add_reminder, when it ran last
    starts,         \* how many times the process was started again
    watchers,       \* Redis keys watcher:{id}: the stored watcher records
    chat_log,       \* per chat, for each message id whether the message has a text
    last_tick,      \* per watcher, what the last tick fetched and sent
    seen,           \* per watcher, the messages fetched by any tick so far
    refetched,      \* messages a tick fetched though an earlier tick had
    rh_config,      \* RetryHandler: max_retries, base_delay, max_delay, rate_limit_delay
    rh_attempt,     \* execute: the loop variable `attempt`
    rh_outcomes,    \* execute: what each invocation of the wrapped call did
    rh_sleeps,      \* execute: the delays slept, in order
    rh_state,       \* execute: idle, running, returned or raised
    rh_raised,      \* execute: the exception that left it
    mcp_servers,    \* MCPRepository._server_urls: names of the registered servers
    mcp_all_tools,  \* MCPRepository._all_tools, in insertion order
    tool_listing,   \* what the last get_all_tools returned
    remote_call,    \* what the remote executor received in the last call_tool
    exec_result,    \* outcome of the last execute_tool
    in_variant,     \* which handle_text_message is wired: "core" or "legacy"
    in_setup,       \* _notion_setup_state of the user: the step, or "none"
    in_pc,          \* handle_text_message: where the handler stands
    in_attempt,     \* the attempt of the rate-limit loop
    in_response,    \* the response the chat call returned
    in_answers,     \* the texts message.answer delivered in this turn
    in_turns,       \* text messages received so far
    task_pc,        \* per concurrent turn, where its chat() stands
    task_local,     \* per concurrent turn, the list its append read from the store
    overlapped,     \* an append read the list while another was between its get and its set
    life_variant,   \* which lifespan runs: "app" or "core"
    life_pc,        \* lifespan: serving, cancel, await, close or closed
    life_idx,       \* lifespan: the background task being stopped, by its place in the cleanup
    redis_open,     \* the Redis connection has not been closed
    bg_pc,          \* per background task: waiting, working, cleanup or ended
    bg_cancel,      \* per background task: its cancellation was requested, not yet delivered
    bg_interrupted, \* per background task: where the cancellation reached it
    late_ops,       \* background tasks that did a store operation on the closed connection
    pending,        \* the pending reminder confirmations of the storage
    tool_reply,     \* what create_reminder or the confirm handler answered last
    pt_client,      \* which LLMClient runs: "core" or "legacy"
    pt_calls,       \* the tool calls of the response persisted last
    pt_count,       \* responses persisted so far
    fire_sends,     \* the send attempts of the reminder jobs, in order
    pending_response,\* per user, the reminder whose answer is awaited, 0 for none
    fire_log,       \* what the job fired last did
    fires,          \* jobs fired so far
    wk_up,          \* the summarization worker runs and is subscribed to the expiry events
    wk_queue,       \* expiry events delivered to the subscription and not yet read
    wk_pc,          \* position of the worker: listening, summarizing, stopped
    wk_user,        \* user_id of the conversation being summarized
    wk_data,        \* the message list _summarize_conversation read
    wk_done,        \* what the last _summarize_conversation did
    wk_expired,     \* per owner: the marker expired and no turn arrived since
    expiries,       \* markers expired so far
    wk_stops,       \* times the worker was stopped
    flt_content,    \* the content of the filter LLM answer, as tokens
    flt_delivered,  \* the batch numbers of the messages _filter_batch returned, in order
    flt_pc,         \* position of _filter_batch: idle, asked, done
    rl_pc,          \* position of the handler: idle, chat, sleeping, answered, failed
    rl_text,        \* number of the inbound text the handler works on
    rl_attempt,     \* `attempt` of the loop of the rate-limit handling
    rl_count,       \* inbound messages received so far
    cf_pc,          \* per confirm handler: idle, creating, done
    cf_data,        \* per confirm handler: the pending record it read, if any
    cf_saved,       \* pending confirmations saved so far
    wd_records,     \* Redis keys watcher:{id} as the delete tool and the tick see them
    wd_index,       \* Redis sets user_watchers:{user_id}
    wd_update,      \* the update_last_check in progress: its position, id and the record it read
    wd_deleted,     \* ids for which delete_watcher has returned true
    wd_last_delete  \* the last delete_watcher tool call: caller, id, owner of the record, result

storeVars == <<conversation, ttl_marker, msg_seq, last_op>>

turnVars == <<pc, turn_owner, history, depth, llm_calls, llm_trace, last_exec,
              exit, reply, raised, sent>>

syncVars == <<reminders, user_index, schedules, next_id, calendar, credentials,
              passes, pass_users, pass_log, add_result, starts>>

watchVars == <<watchers, chat_log, last_tick, seen, refetched>>

retryVars == <<rh_config, rh_attempt, rh_outcomes, rh_sleeps, rh_state, rh_raised>>

\* the retry handler on its own, the registry and the message handler
registryVars == <<mcp_servers, mcp_all_tools, tool_listing, remote_call, exec_result>>

inboundVars == <<in_variant, in_setup, in_pc, in_attempt, in_response, in_answers, in_turns>>

raceVars == <<task_pc, task_local, overlapped>>

lifeVars == <<life_variant, life_pc, life_idx, redis_open, bg_pc, bg_cancel, bg_interrupted, late_ops>>

createVars == <<pending, tool_reply>>

persistVars == <<pt_client, pt_calls, pt_count>>

fireVars == <<fire_sends, pending_response, fire_log, fires>>

workerVars == <<wk_up, wk_queue, wk_pc, wk_user, wk_data, wk_done, wk_expired, expiries, wk_stops>>

filterVars == <<flt_content, flt_delivered, flt_pc>>

rateVars == <<rl_pc, rl_text, rl_attempt, rl_count>>

confirmVars == <<cf_pc, cf_data, cf_saved>>

deleteVars == <<wd_records, wd_index, wd_update, wd_deleted, wd_last_delete>>

auxVars == <<retryVars, registryVars, inboundVars, raceVars, lifeVars, createVars, persistVars, fireVars, workerVars, filterVars, rateVars, confirmVars,
            deleteVars>>

vars == <<conversation, ttl_marker, msg_seq, last_op,
          pc, turn_owner, history, depth, llm_calls, llm_trace, last_exec,
          exit, reply, raised, sent,
          reminders, user_index, schedules, next_id, calendar, credentials,
          passes, pass_users, pass_log, add_result, starts,
          watchers, chat_log, last_tick, seen, refetched,
          rh_config, rh_attempt, rh_outcomes, rh_sleeps, rh_state, rh_raised,
          mcp_servers, mcp_all_tools, tool_listing, remote_call, exec_result,
          in_variant, in_setup, in_pc, in_attempt, in_response, in_answers, in_turns,
          task_pc, task_local, overlapped,
          life_variant, life_pc, life_idx, redis_open, bg_pc, bg_cancel, bg_interrupted, late_ops,
          pending, tool_reply,
          pt_client, pt_calls, pt_count,
          fire_sends, pending_response, fire_log, fires,
          wk_up, wk_queue, wk_pc, wk_user, wk_data, wk_done, wk_expired, expiries, wk_stops,
          flt_content, flt_delivered, flt_pc,
          rl_pc, rl_text, rl_attempt, rl_count,
          cf_pc, cf_data, cf_saved,
          wd_records, wd_index, wd_update, wd_deleted, wd_last_delete>>

(***************************************************************************)
(* Messages.  A message is a dict with a role and a content; the content   *)
(* is a kind and a number (the n-th user text, the prompt of timezone n).  *)
(* tool_calls is the list of [id, name, args] of an assistant message and  *)
(* tool_call_id the id a tool message answers (0 when absent).             *)
(***************************************************************************)
Msg(role, kind, n) ==
    [role |-> role, kind |-> kind, n |-> n, tool_calls |-> <<>>, tool_call_id |-> 0]

SystemMsg(p) == Msg("system", "prompt", p)
UserMsg(n) == Msg("user", "text", n)
AssistantMsg(n) == Msg("assistant", "text", n)
\* "[Краткое содержание предыдущего диалога]\n{summary}"
SummaryMsg(n) == Msg("assistant", "summary", n)
\* the n-th text handed to the store by a client: user and assistant texts alternate
TextMsg(n) == IF n % 2 = 1 THEN UserMsg(n) ELSE AssistantMsg(n)

(***************************************************************************)
(* ConversationHistory: the list operations between get and set            *)
(***************************************************************************)
\* variant of Trim that never cuts the list
Trim_Off(hist) == hist

\* history[-50:] when the list is longer than 50
Trim(hist) ==
    IF Len(hist) > MAX_HISTORY
    THEN SubSeq(hist, Len(hist) - MAX_HISTORY + 1, Len(hist))
    ELSE hist

\* append: history.append(message), then the trim
AppendOp(hist, message) == Trim(Append(hist, message))

\* append_many: history.extend(messages), then the trim
AppendManyOp(hist, messages) == Trim(hist \o messages)

\* [msg for msg in history if msg.get("role") != "system"]
NonSystem(hist) == SelectSeq(hist, LAMBDA m : m.role # "system")

\* variant of set_system_message that keeps the system messages it finds
SetSystemOp_NoFilter(hist, p) == <<SystemMsg(p)>> \o hist

\* set_system_message: drop every system message, insert the new one at 0
SetSystemOp(hist, p) == <<SystemMsg(p)>> \o NonSystem(hist)

\* variant of replace_with_summary that keeps the messages it summarises
ReplaceWithSummaryOp_KeepsAll(hist, n) == hist \o <<SummaryMsg(n)>>

\* replace_with_summary: first system message (if any), then the summary
ReplaceWithSummaryOp(hist, n) ==
    LET sys == SelectSeq(hist, LAMBDA m : m.role = "system")
    IN  (IF Len(sys) > 0 THEN <<sys[1]>> ELSE <<>>) \o <<SummaryMsg(n)>>

(***************************************************************************)
(* Store operations as called by the store's clients                       *)
(***************************************************************************)
\* the operation just performed, its owner and the list length it found
Op(name, o, hist) == [op |-> name, owner |-> o, pre_len |-> Len(hist)]

\* the messages of one append_many call: texts first .. first+k-1
ManyMsgs(first, k) == [i \in 1..k |-> TextMsg(first + i - 1)]

StoreAppend(o) ==
    /\ msg_seq < MaxSeq
    /\ msg_seq' = msg_seq + 1
    /\ conversation' = [conversation EXCEPT ![o] = AppendOp(@, TextMsg(msg_seq + 1))]
    /\ ttl_marker' = [ttl_marker EXCEPT ![o] = TRUE]
    /\ last_op' = Op("append", o, conversation[o])
    /\ UNCHANGED <<turnVars, syncVars, watchVars, auxVars>>

StoreAppendMany(o) ==
    \E k \in 0..MaxMany :
        /\ msg_seq + k <= MaxSeq
        /\ msg_seq' = msg_seq + k
        /\ conversation' = [conversation EXCEPT
                               ![o] = AppendManyOp(@, ManyMsgs(msg_seq + 1, k))]
        /\ ttl_marker' = [ttl_marker EXCEPT ![o] = TRUE]
        /\ last_op' = Op("append_many", o, conversation[o])
        /\ UNCHANGED <<turnVars, syncVars, watchVars, auxVars>>

StoreSetSystemMessage(o) ==
    \E p \in Prompts :
        /\ conversation' = [conversation EXCEPT ![o] = SetSystemOp(@, p)]
        /\ ttl_marker' = [ttl_marker EXCEPT ![o] = TRUE]
        /\ last_op' = Op("set_system_message", o, conversation[o])
        /\ UNCHANGED msg_seq
        /\ UNCHANGED <<turnVars, syncVars, watchVars, auxVars>>

StoreReplaceWithSummary(o) ==
    \E n \in Summaries :
        /\ conversation' = [conversation EXCEPT ![o] = ReplaceWithSummaryOp(@, n)]
        /\ last_op' = Op("replace_with_summary", o, conversation[o])
        /\ UNCHANGED <<ttl_marker, msg_seq>>
        /\ UNCHANGED <<turnVars, syncVars, watchVars, auxVars>>

StoreClear(o) ==
    /\ conversation' = [conversation EXCEPT ![o] = <<>>]
    /\ ttl_marker' = [ttl_marker EXCEPT ![o] = FALSE]
    /\ last_op' = Op("clear", o, conversation[o])
    /\ UNCHANGED msg_seq
    /\ UNCHANGED <<turnVars, syncVars, watchVars, auxVars>>

\* no turn in progress
TurnIdle ==
    /\ pc = "idle"
    /\ turn_owner = 0
    /\ history = <<>>
    /\ depth = 0
    /\ llm_calls = 0
    /\ llm_trace = <<>>
    /\ last_exec = <<>>
    /\ exit = "none"
    /\ reply = [type |-> "none", n |-> 0]
    /\ raised = "none"
    /\ sent = <<>>

\* users of the bot
Users == {1, 2}
\* watcher ids and the chats watched
WatcherIds == {1}
Chats == {"a", "b"}

\* the store as constructed
StoreIdle ==
    /\ conversation = [o \in ConvOwners |-> <<>>]
    /\ ttl_marker = [o \in ConvOwners |-> FALSE]
    /\ msg_seq = 0
    /\ last_op = [op |-> "none", owner |-> 0, pre_len |-> 0]

\* a part of a time string that int() refuses
NaN == 0 - 1
\* no add_reminder call was the last operation
NoAdd == [raised |-> "none",
          request |-> [schedule_type |-> "", weekday |-> [none |-> TRUE, val |-> 0],
                       time |-> <<>>,
                       timezone |-> [kind |-> "none", sign |-> "", hours |-> 0,
                                     minutes |-> 0]]]
\* no reminder, no schedule, no calendar known
SyncIdle ==
    /\ add_result = NoAdd
    /\ starts = 0
    /\ reminders = {}
    /\ user_index = [u \in Users |-> {}]
    /\ schedules = {}
    /\ next_id = 1
    /\ calendar = [u \in Users |-> <<>>]
    /\ credentials = [u \in Users |-> "none"]
    /\ passes = 0
    /\ pass_users = {}
    /\ pass_log = <<>>

\* no watcher, no message in any chat
WatchIdle ==
    /\ watchers = [w \in WatcherIds |->
                      [exists |-> FALSE, user_id |-> 0, chat_ids |-> <<>>,
                       last_check_at |-> "none",
                       last_message_ids |-> [c \in Chats |-> 0]]]
    /\ chat_log = [c \in Chats |-> <<>>]
    /\ last_tick = [w \in WatcherIds |->
                       [ran |-> FALSE, ok |-> FALSE,
                        pre |-> [c \in Chats |-> 0],
                        fetched |-> {}, sent |-> {}]]
    /\ seen = [w \in WatcherIds |-> {}]
    /\ refetched = {}

\* RetryHandler() with its defaults, execute not called
RetryDefaults ==
    [max_retries |-> MAX_RETRIES, base_delay |-> 1, max_delay |-> 60,
     rate_limit_delay |-> 30]
NoException == [kind |-> "none", retry_after |-> 0]
RetryIdle ==
    /\ rh_config = RetryDefaults
    /\ rh_attempt = 0
    /\ rh_outcomes = <<>>
    /\ rh_sleeps = <<>>
    /\ rh_state = "idle"
    /\ rh_raised = NoException

\* an argument dict: the keys the caller gave and their values
NoArguments == [k \in {} |-> 0]
NoCall == [name |-> "", server_name |-> "", caller |-> 0, supplied |-> NoArguments,
           arguments |-> NoArguments]
NoResult == [kind |-> "none", value |-> NoArguments]
\* MCPRepository() and ToolRegistry() as constructed
RegistryIdle ==
    /\ mcp_servers = {}
    /\ mcp_all_tools = <<>>
    /\ tool_listing = <<>>
    /\ remote_call = NoCall
    /\ exec_result = NoResult

\* no response held by the handler
NoResponseYet == [kind |-> "none", len |-> 0]
\* the dispatcher before any text message
InboundIdle ==
    /\ in_variant = "core"
    /\ in_setup = "none"
    /\ in_pc = "idle"
    /\ in_attempt = 0
    /\ in_response = NoResponseYet
    /\ in_answers = <<>>
    /\ in_turns = 0

\* the concurrent turns of one owner
Tasks == {1, 2}
\* no turn has started
RaceIdle ==
    /\ task_pc = [t \in Tasks |-> "start"]
    /\ task_local = [t \in Tasks |-> <<>>]
    /\ overlapped = FALSE

\* the background tasks of either lifespan
BgNames == {"reminder", "summarization", "watcher", "polling"}
\* the process as started, no shutdown asked for
LifeIdle ==
    /\ life_variant = "app"
    /\ life_pc = "serving"
    /\ life_idx = 1
    /\ redis_open = TRUE
    /\ bg_pc = [t \in BgNames |-> "waiting"]
    /\ bg_cancel = [t \in BgNames |-> FALSE]
    /\ bg_interrupted = [t \in BgNames |-> "none"]
    /\ late_ops = {}

\* no create_reminder call and no confirmation yet
NoReply == [by |-> "none", success |-> FALSE, error |-> ""]
CreateIdle ==
    /\ pending = {}
    /\ tool_reply = NoReply

\* no response persisted yet
PersistIdle ==
    /\ pt_client = "core"
    /\ pt_calls = <<>>
    /\ pt_count = 0

\* no job fired yet
NoFire == [id |-> 0, found |-> FALSE, outcome |-> "none", logged |-> "none",
           raised |-> FALSE]
FireIdle ==
    /\ fire_sends = <<>>
    /\ pending_response = [u \in Users |-> 0]
    /\ fire_log = NoFire
    /\ fires = 0

\* no conversation summarized yet
NoSummary == [user |-> 0, llm |-> "none", result |-> "none"]
\* the worker started by the application, nothing expired
WorkerIdle ==
    /\ wk_up = TRUE
    /\ wk_queue = <<>>
    /\ wk_pc = "listening"
    /\ wk_user = 0
    /\ wk_data = <<>>
    /\ wk_done = NoSummary
    /\ wk_expired = [o \in ConvOwners |-> FALSE]
    /\ expiries = 0
    /\ wk_stops = 0

\* no batch handed to the filter
FilterIdle ==
    /\ flt_content = <<>>
    /\ flt_delivered = <<>>
    /\ flt_pc = "idle"

\* no inbound message under the rate-limit handling
RateIdle ==
    /\ rl_pc = "idle"
    /\ rl_text = 0
    /\ rl_attempt = 0
    /\ rl_count = 0

\* no confirm callback being handled
ConfirmHandlers == {1, 2}
NoPending == [id |-> 0, user_id |-> 0,
              request |-> [schedule_type |-> "", weekday |-> [none |-> TRUE, val |-> 0],
                           time |-> <<>>,
                           timezone |-> [kind |-> "none", sign |-> "", hours |-> 0,
                                         minutes |-> 0]]]
ConfirmIdle ==
    /\ cf_pc = [h \in ConfirmHandlers |-> "idle"]
    /\ cf_data = [h \in ConfirmHandlers |-> NoPending]
    /\ cf_saved = 0

\* no watcher stored, no update and no delete in progress
WatcherKeys == {1, 2}
NoRecord == [exists |-> FALSE, user_id |-> 0, last_check_at |-> 0]
NoUpdate == [pc |-> "idle", id |-> 0, watcher |-> NoRecord]
NoDelete == [caller |-> 0, id |-> 0, owner |-> 0, deleted |-> FALSE]
DeleteIdle ==
    /\ wd_records = [id \in WatcherKeys |-> NoRecord]
    /\ wd_index = [u \in Users |-> {}]
    /\ wd_update = NoUpdate
    /\ wd_deleted = {}
    /\ wd_last_delete = NoDelete

AuxIdle ==
    /\ RetryIdle
    /\ RegistryIdle
    /\ InboundIdle
    /\ RaceIdle
    /\ LifeIdle
    /\ CreateIdle
    /\ PersistIdle
    /\ FireIdle
    /\ WorkerIdle
    /\ FilterIdle
    /\ RateIdle
    /\ ConfirmIdle
    /\ DeleteIdle

InitStore ==
    /\ StoreIdle
    /\ TurnIdle
    /\ SyncIdle
    /\ WatchIdle
    /\ AuxIdle

NextStore ==
    \E o \in ConvOwners :
        \/ StoreAppend(o)
        \/ StoreAppendMany(o)
        \/ StoreSetSystemMessage(o)
        \/ StoreReplaceWithSummary(o)
        \/ StoreClear(o)

SpecStore == InitStore /\ [][NextStore]_vars

(***************************************************************************)
(* RetryHandler.execute: the provider answers attempt a (0-based) with     *)
(* behaviour[a + 1]; the result is how execute ends and the outcomes it    *)
(* saw.                                                                    *)
(***************************************************************************)
ProviderOutcomes == {"ok", "rate_limit", "transient", "error"}

\* execute stops asking at the first outcome that is not transient: the
\* outcomes after it are never requested and are fixed to "ok"
ProviderBehaviours ==
    {b \in [1..(MAX_RETRIES + 1) -> ProviderOutcomes] :
        \A i \in 1..(MAX_RETRIES + 1) :
            b[i] # "transient" => \A j \in (i + 1)..(MAX_RETRIES + 1) : b[j] = "ok"}

RECURSIVE RetryFrom(_, _, _)
RetryFrom(behaviour, attempt, trace) ==
    IF attempt > MAX_RETRIES
    THEN [final |-> "exhausted", trace |-> trace]
    ELSE LET out == behaviour[attempt + 1]
             tr == Append(trace, out)
         IN  CASE out = "ok" -> [final |-> "ok", trace |-> tr]
               [] out = "rate_limit" -> [final |-> "rate_limit", trace |-> tr]
               [] out = "transient" -> RetryFrom(behaviour, attempt + 1, tr)
               [] OTHER -> [final |-> "error", trace |-> tr]

\* variant of execute that retries a rate-limit error like a transient one
RECURSIVE RetryAllFrom(_, _, _)
RetryAllFrom(behaviour, attempt, trace) ==
    IF attempt > MAX_RETRIES
    THEN [final |-> "exhausted", trace |-> trace]
    ELSE LET out == behaviour[attempt + 1]
             tr == Append(trace, out)
         IN  CASE out = "ok" -> [final |-> "ok", trace |-> tr]
               [] out \in {"rate_limit", "transient"} ->
                      RetryAllFrom(behaviour, attempt + 1, tr)
               [] OTHER -> [final |-> "error", trace |-> tr]

RetryExecute_RetriesRateLimit(behaviour) == RetryAllFrom(behaviour, 0, <<>>)

RetryExecute(behaviour) == RetryFrom(behaviour, 0, <<>>)

(***************************************************************************)
(* ToolRegistry                                                            *)
(***************************************************************************)
\* _local_tools after _load_local_tools
LocalTools == {"respond_to_user"}
\* mcp_repo.tool_names
McpTools == {"get_tasks"}
\* what a remote tool call comes back with
RemoteOutcomes == {"ok", "not_authorized"}

\* json.loads(tool_call.function.arguments), {} on JSONDecodeError
ParseArguments(args) == IF args = "malformed" THEN "empty" ELSE args

\* variant of execute_tool that hands every non-local name to the MCP repository
ExecuteTool_NoNameCheck(name, arguments, out, id) ==
    IF name \in LocalTools
    THEN [raised |-> FALSE, type |-> "str", error |-> "none",
          n |-> IF arguments = "object" THEN id ELSE 0]
    ELSE [raised |-> FALSE, type |-> "dict",
          error |-> IF out = "not_authorized" THEN "not_authorized" ELSE "none",
          n |-> 0]

\* execute_tool: the value returned, or the exception raised
\*   respond_to_user returns kwargs.get("response", ""): text id, or text 0 ("")
ExecuteTool(name, arguments, out, id) ==
    IF name \in LocalTools
    THEN [raised |-> FALSE, type |-> "str", error |-> "none",
          n |-> IF arguments = "object" THEN id ELSE 0]
    ELSE IF name \in McpTools
         THEN [raised |-> FALSE, type |-> "dict",
               error |-> IF out = "not_authorized" THEN "not_authorized" ELSE "none",
               n |-> 0]
         ELSE [raised |-> TRUE, type |-> "none", error |-> "tool_not_found", n |-> 0]

(***************************************************************************)
(* LLMClient._process_response: the tool calls of one response             *)
(***************************************************************************)
ToolCall(id, name, args) == [id |-> id, name |-> name, args |-> args]

\* the assistant message that carries the tool calls (full structured form)
AssistantToolCallsMsg(calls) ==
    [role |-> "assistant", kind |-> "text", n |-> 0,
     tool_calls |-> calls, tool_call_id |-> 0]

\* {"role": "tool", "tool_call_id": id, "content": result_str}
ToolMsg(id, kind) ==
    [role |-> "tool", kind |-> kind, n |-> 0, tool_calls |-> <<>>, tool_call_id |-> id]

\* variant of the terminal test that never recognises the terminal tool
IsTerminal_Never(name, r) == FALSE

\* `tool_name == "respond_to_user" and isinstance(result, str)`
IsTerminal(name, r) == name = "respond_to_user" /\ r.type = "str"

\* variant of the not_authorized test that never recognises the sentinel
IsNotAuthorized_Never(r) == FALSE

\* `isinstance(result, dict)` and `result.get("error") == "not_authorized"`
IsNotAuthorized(r) == r.type = "dict" /\ r.error = "not_authorized"

\* result_str of a call that neither ended the turn nor raised
ResultKind(r) == IF r.type = "dict" THEN "json" ELSE "str"

\* the for-loop over message.tool_calls, from call i on
RECURSIVE RunToolCalls(_, _, _, _)
RunToolCalls(calls, i, outs, st) ==
    IF i > Len(calls)
    THEN st
    ELSE LET tc == calls[i]
             r == ExecuteTool(tc.name, ParseArguments(tc.args), outs[i], tc.id)
             ex == Append(st.executed,
                          [id |-> tc.id, name |-> tc.name, raised |-> r.raised,
                           error |-> r.error])
         IN  IF ~r.raised /\ IsTerminal(tc.name, r)
             THEN [st EXCEPT !.conv = AppendOp(@, AssistantMsg(r.n)),
                             !.executed = ex,
                             !.exit = "terminal_tool",
                             !.reply = [type |-> "text", n |-> r.n]]
             ELSE IF ~r.raised /\ IsNotAuthorized(r)
             THEN [st EXCEPT !.executed = ex,
                             !.exit = "auth_required",
                             !.reply = [type |-> "auth_required", n |-> 0]]
             ELSE LET tm == ToolMsg(tc.id, IF r.raised THEN "envelope"
                                                      ELSE ResultKind(r))
                  IN  RunToolCalls(calls, i + 1, outs,
                                   [st EXCEPT !.hist = Append(@, tm),
                                              !.conv = AppendOp(@, tm),
                                              !.executed = ex])

\* variant of the depth test that cuts off one level early
DepthExceeded_Early(d) == d >= MAX_DEPTH

\* `if depth > 5:`
DepthExceeded(d) == d > MAX_DEPTH

(***************************************************************************)
(* What the LLM may answer                                                 *)
(***************************************************************************)
Req(name, args) == [name |-> name, args |-> args]

ToolCallLists ==
    { <<Req("respond_to_user", "object")>>,
      <<Req("respond_to_user", "malformed")>>,
      <<Req("get_tasks", "object")>>,
      <<Req("no_such_tool", "object"), Req("get_tasks", "object")>>,
      <<Req("get_tasks", "object"), Req("respond_to_user", "object")>>,
      <<Req("respond_to_user", "object"), Req("get_tasks", "object")>> }

\* message.tool_calls is a list of requests, empty for a plain-content answer
LLMResponses == ToolCallLists \cup {<<>>}

\* ids of the tool calls of the response to call number c
WithIds(reqs, c) ==
    [i \in 1..Len(reqs) |-> ToolCall(10 * c + i, reqs[i].name, reqs[i].args)]

(***************************************************************************)
(* LLMClient.chat                                                          *)
(***************************************************************************)
\* chat() up to the first _call_llm: system prompt check, user message
ChatBegin(o) ==
    \E p \in Prompts :
        LET stored == conversation[o]
            fresh == \/ Len(stored) = 0
                     \/ stored[1].role # "system"
                     \/ stored[1] # SystemMsg(p)
            afterSys == IF fresh THEN SetSystemOp(stored, p) ELSE stored
            um == UserMsg(msg_seq + 1)
        IN  /\ pc = "idle"
            /\ msg_seq < MaxSeq
            /\ msg_seq' = msg_seq + 1
            /\ conversation' = [conversation EXCEPT ![o] = AppendOp(afterSys, um)]
            /\ ttl_marker' = [ttl_marker EXCEPT ![o] = TRUE]
            /\ last_op' = Op("append", o, afterSys)
            /\ history' = Append(afterSys, um)
            /\ turn_owner' = o
            /\ pc' = "call_llm"
            /\ UNCHANGED <<depth, llm_calls, llm_trace, last_exec, exit, reply,
                           raised, sent>>
            /\ UNCHANGED <<syncVars, watchVars, auxVars>>

\* one _call_llm and the _process_response of its answer, up to the next
\* _call_llm or the return
LLMRound ==
    \E behaviour \in ProviderBehaviours, reqs \in LLMResponses :
      \E outs \in [1..Len(reqs) -> RemoteOutcomes] :
        LET o == turn_owner
            res == RetryExecute(behaviour)
            calls == WithIds(reqs, llm_calls + 1)
            am == AssistantToolCallsMsg(calls)
            st0 == [hist |-> Append(history, am),
                    conv |-> AppendOp(conversation[o], am),
                    executed |-> <<>>,
                    exit |-> "continue",
                    reply |-> [type |-> "none", n |-> 0]]
            st == RunToolCalls(calls, 1, outs, st0)
        IN  /\ pc = "call_llm"
            /\ llm_calls' = llm_calls + 1
            /\ llm_trace' = res.trace
            /\ UNCHANGED <<turn_owner, msg_seq, sent>>
            /\ UNCHANGED <<syncVars, watchVars, auxVars>>
            /\ IF res.final # "ok"
               THEN /\ pc' = "raised"
                    /\ raised' = IF res.final = "rate_limit"
                                 THEN "RateLimitException" ELSE "llm_error"
                    /\ last_exec' = <<>>
                    /\ UNCHANGED <<conversation, ttl_marker, last_op, history,
                                   depth, exit, reply>>
               ELSE IF DepthExceeded(depth)
               THEN /\ pc' = "done"
                    /\ exit' = "depth_cutoff"
                    /\ reply' = [type |-> "apology", n |-> 0]
                    /\ last_exec' = <<>>
                    /\ UNCHANGED <<conversation, ttl_marker, last_op, history,
                                   depth, raised>>
               ELSE IF Len(reqs) = 0
               THEN /\ pc' = "done"
                    /\ exit' = "plain_content"
                    /\ reply' = [type |-> "text", n |-> 10 * (llm_calls + 1)]
                    /\ conversation' =
                          [conversation EXCEPT
                              ![o] = AppendOp(@, AssistantMsg(10 * (llm_calls + 1)))]
                    /\ ttl_marker' = [ttl_marker EXCEPT ![o] = TRUE]
                    /\ last_op' = Op("append", o, conversation[o])
                    /\ last_exec' = <<>>
                    /\ UNCHANGED <<history, depth, raised>>
               ELSE /\ conversation' = [conversation EXCEPT ![o] = st.conv]
                    /\ ttl_marker' = [ttl_marker EXCEPT ![o] = TRUE]
                    /\ last_op' = Op("append", o, conversation[o])
                    /\ history' = st.hist
                    /\ last_exec' = st.executed
                    /\ exit' = IF st.exit = "continue" THEN exit ELSE st.exit
                    /\ reply' = st.reply
                    /\ pc' = IF st.exit = "continue" THEN "call_llm" ELSE "done"
                    /\ depth' = IF st.exit = "continue" THEN depth + 1 ELSE depth
                    /\ UNCHANGED raised

\* _send_response: the fixed message for auth_required, the text otherwise
SendResponse ==
    /\ pc = "done"
    /\ pc' = "replied"
    /\ sent' = Append(sent, IF reply.type = "auth_required"
                            THEN [kind |-> "AUTH_REQUIRED_MESSAGE", n |-> 0]
                            ELSE [kind |-> reply.type, n |-> reply.n])
    /\ UNCHANGED <<storeVars, turn_owner, history, depth, llm_calls, llm_trace,
                   last_exec, exit, reply, raised>>
    /\ UNCHANGED <<syncVars, watchVars, auxVars>>

\* a stored list: the system prompt p (none when p < 0), then texts 1..k
Stored(p, k) ==
    (IF p < 0 THEN <<>> ELSE <<SystemMsg(p)>>) \o [i \in 1..k |-> TextMsg(i)]

\* the stored lists a turn may find
InitialConversations ==
    {<<>>, Stored(0, 2), Stored(-1, 2), Stored(1, MAX_HISTORY - 1)}

InitTurn ==
    /\ conversation \in [ConvOwners -> InitialConversations]
    /\ ttl_marker = [o \in ConvOwners |-> FALSE]
    /\ msg_seq = MAX_HISTORY - 1
    /\ last_op = Op("none", 0, <<>>)
    /\ TurnIdle
    /\ SyncIdle
    /\ WatchIdle
    /\ AuxIdle

NextTurn ==
    \/ \E o \in ConvOwners : ChatBegin(o)
    \/ LLMRound
    \/ SendResponse

SpecTurn == InitTurn /\ [][NextTurn]_vars

(***************************************************************************)
(* Reminder scheduler: storage of reminders, schedules of the scheduler    *)
(* and the reconciliation against the calendar (_sync_from_calendar).      *)
(***************************************************************************)
\* an optional value: None keeps a default of the value's type
Some(v) == [none |-> FALSE, val |-> v]
None(d) == [none |-> TRUE, val |-> d]

\* strings the code searches are sequences of characters
RRULE_DAILY ==
    <<"R","R","U","L","E",":","F","R","E","Q","=","D","A","I","L","Y">>
RRULE_WEEKLY ==
    <<"R","R","U","L","E",":","F","R","E","Q","=","W","E","E","K","L","Y">>
\* create_reminder: f"RRULE:FREQ=WEEKLY;BYDAY={day_code}"
WeeklyRule(day_code) == RRULE_WEEKLY \o <<";","B","Y","D","A","Y","=">> \o day_code

\* `needle in hay` of two strings
Contains(needle, hay) ==
    \E i \in 0..(Len(hay) - Len(needle)) :
        SubSeq(hay, i + 1, i + Len(needle)) = needle

\* day_map, in the order its items are iterated; weekday = position - 1
day_map == << <<"M","O">>, <<"T","U">>, <<"W","E">>, <<"T","H">>,
              <<"F","R">>, <<"S","A">>, <<"S","U">> >>

\* the tag a reminder event's description starts with
REMINDER_TAG == "#tag"

\* a description is a sequence of words and blanks; the template is what
\* follows the tag, stripped
RECURSIVE LStrip(_)
LStrip(s) == IF s # <<>> /\ Head(s) = " " THEN LStrip(Tail(s)) ELSE s
RECURSIVE RStrip(_)
RStrip(s) ==
    IF s # <<>> /\ s[Len(s)] = " " THEN RStrip(SubSeq(s, 1, Len(s) - 1)) ELSE s
Strip(s) == RStrip(LStrip(s))
StartsWithTag(description) == description # <<>> /\ Head(description) = REMINDER_TAG

\* start strings of the calendar API: a dateTime with an offset (minutes),
\* a dateTime without one, a date, or text that is no ISO date
DateTime(h, m, off, wd) ==
    [form |-> "offset", hour |-> h, minute |-> m, offset |-> off, weekday |-> wd]
Date(wd) ==
    [form |-> "date", hour |-> 0, minute |-> 0, offset |-> 0, weekday |-> wd]
NoStart == [form |-> "empty", hour |-> 0, minute |-> 0, offset |-> 0, weekday |-> 0]

\* an item of the Calendar API events.list answer
Item(id, rid, description, start, recurrence) ==
    [id |-> id, recurringEventId |-> rid, description |-> description,
     start |-> start, recurrence |-> recurrence]

\* list_events: the dicts built from the first max_results items
MAX_RESULTS == 50
EventDict(item) ==
    [id |-> item.id,
     start |-> IF ~item.start.dateTime.none /\ item.start.dateTime.val.form # "empty"
               THEN item.start.dateTime ELSE item.start.date,
     description |-> item.description,
     recurrence |-> item.recurrence,
     recurring_event_id |-> item.recurringEventId]
ListEvents(items) ==
    [i \in 1..(IF Len(items) < MAX_RESULTS THEN Len(items) ELSE MAX_RESULTS) |->
        EventDict(items[i])]

\* the timezone string of an offset: f"{sign}{hours:02d}:{minutes:02d}"
Abs(n) == IF n < 0 THEN -n ELSE n
FormatOffset(total_minutes) ==
    [kind |-> "offset",
     sign |-> IF total_minutes >= 0 THEN "+" ELSE "-",
     hours |-> Abs(total_minutes) \div 60,
     minutes |-> Abs(total_minutes) % 60]
IanaZone == [kind |-> "iana", sign |-> "", hours |-> 0, minutes |-> 0]
\* timezone=None, and a string that names no zone and is no offset
NoTimezone == [kind |-> "none", sign |-> "", hours |-> 0, minutes |-> 0]
UnknownZone == [kind |-> "unknown", sign |-> "", hours |-> 0, minutes |-> 0]

\* to_tzinfo: the utc offset in minutes of a timezone string
to_tzinfo(tz) ==
    IF tz.kind \in {"none", "unknown"} THEN None(0)
    ELSE IF tz.kind = "iana" THEN Some(0)
    ELSE Some((IF tz.sign = "-" THEN -1 ELSE 1) * (tz.hours * 60 + tz.minutes))

\* the weekday of the first day code found in the rule, None when none is
RECURSIVE FirstDay(_, _)
FirstDay(rule, i) ==
    IF i > Len(day_map) THEN None(0)
    ELSE IF Contains(day_map[i], rule) THEN Some(i - 1)
    ELSE FirstDay(rule, i + 1)

\* `for rule in recurrence`: schedule type and weekday of the first weekly rule
RECURSIVE ScheduleOf(_, _, _)
ScheduleOf(recurrence, i, start) ==
    IF i > Len(recurrence)
    THEN [schedule_type |-> "daily", weekday |-> None(0)]
    ELSE IF Contains(<<"F","R","E","Q","=","W","E","E","K","L","Y">>, recurrence[i])
    THEN LET byday == IF Contains(<<"B","Y","D","A","Y","=">>, recurrence[i])
                      THEN FirstDay(recurrence[i], 1) ELSE None(0)
         IN  [schedule_type |-> "weekly",
              weekday |-> IF byday.none THEN Some(start.weekday) ELSE byday]
    ELSE ScheduleOf(recurrence, i + 1, start)

\* save_reminder: a new record under a fresh id, indexed under its user
NewReminder(id, user_id, template, schedule, time, tz, event_id) ==
    [id |-> id, user_id |-> user_id, template |-> template,
     schedule_type |-> schedule.schedule_type, time |-> time,
     timezone |-> tz, weekday |-> schedule.weekday,
     calendar_event_id |-> event_id, is_active |-> TRUE]
SaveReminder(st, r) ==
    [st EXCEPT !.reminders = @ \cup {r},
               !.index = [@ EXCEPT ![r.user_id] = @ \cup {r.id}],
               !.next_id = @ + 1]

\* hour, minute = map(int, time_str.split(":")): the time string is kept as
\* its parts between colons, each the number it reads as or NaN
TimeParses(time) == Len(time) = 2 /\ \A i \in DOMAIN time : time[i] # NaN

\* _schedule_reminder raises: the time does not parse, or the type is unknown
ScheduleRaises(r) ==
    /\ r.timezone.kind # "none"
    /\ \/ ~TimeParses(r.time)
       \/ /\ ~to_tzinfo(r.timezone).none
          /\ r.schedule_type \notin {"daily", "weekly"}

\* _schedule_reminder: the cron schedule of a reminder, none without a timezone
ScheduleReminder(scheds, r) ==
    IF r.timezone.kind = "none" \/ ScheduleRaises(r) \/ to_tzinfo(r.timezone).none
    THEN scheds
    ELSE scheds \cup
           {[id |-> r.id, hour |-> r.time[1], minute |-> r.time[2],
             day_of_week |-> IF r.schedule_type = "weekly" THEN r.weekday
                             ELSE None(0),
             utcoffset |-> to_tzinfo(r.timezone).val]}

\* one event of the loop over events: skipped, saved, or an exception
SyncEvent(user_id, event, st) ==
    LET description == IF event.description.none THEN <<>> ELSE event.description.val
        event_id == IF event.recurring_event_id # 0
                    THEN event.recurring_event_id ELSE event.id
        template == Strip(Tail(description))
        start == event.start.val
    IN  IF ~StartsWithTag(description) THEN st
        ELSE IF event_id \in st.synced THEN st
        ELSE IF template = <<>> THEN st
        ELSE IF event.start.none \/ start.form = "empty" THEN st
        ELSE IF start.form = "invalid" THEN st
        ELSE IF start.form \in {"naive", "date"} THEN st
        ELSE IF event.recurrence.none THEN [st EXCEPT !.raised = TRUE]
        ELSE LET r == NewReminder(st.next_id, user_id, template,
                                  ScheduleOf(event.recurrence.val, 1, start),
                                  <<start.hour, start.minute>>,
                                  FormatOffset(start.offset), event_id)
             IN  [SaveReminder(st, r) EXCEPT
                     !.schedules = ScheduleReminder(@, r),
                     !.synced = @ \cup {event_id}]

\* `for event in events`, left at the first exception
RECURSIVE SyncEvents(_, _, _, _)
SyncEvents(user_id, events, i, st) ==
    IF i > Len(events) \/ st.raised THEN st
    ELSE SyncEvents(user_id, events, i + 1, SyncEvent(user_id, events[i], st))

\* `for user_id in user_ids`: an exception ends the user, not the pass
RECURSIVE SyncUsers(_, _, _, _, _)
SyncUsers(order, i, creds, cal, st) ==
    IF i > Len(order) THEN st
    ELSE LET user_id == order[i]
             after == IF creds[user_id] # "ok" THEN st
                      ELSE SyncEvents(user_id, ListEvents(cal[user_id]), 1, st)
         IN  SyncUsers(order, i + 1, creds, cal, [after EXCEPT !.raised = FALSE])

\* the orders a set may be iterated in
Orders(S) ==
    {f \in [1..Cardinality(S) -> S] : \A i, j \in DOMAIN f : f[i] = f[j] => i = j}

\* the arguments of add_reminder
Request(schedule_type, weekday, time, timezone) ==
    [schedule_type |-> schedule_type, weekday |-> weekday, time |-> time,
     timezone |-> timezone]
AcceptedRequests ==
    {Request("daily", None(0), <<20, 0>>, IanaZone),
     Request("weekly", Some(4), <<20, 0>>, IanaZone)}
ReminderRequests ==
    AcceptedRequests \cup
    {Request("weekly", None(0), <<20, 0>>, IanaZone),
     Request("weekly", None(0), <<NaN>>, IanaZone),
     Request("monthly", None(0), <<20, 0>>, IanaZone),
     Request("daily", None(0), <<20, 0>>, NoTimezone),
     Request("daily", None(0), <<NaN>>, IanaZone),
     Request("weekly", Some(4), <<20, 0, 0>>, IanaZone),
     Request("daily", None(0), <<20, 0>>, UnknownZone)}

\* the checks of add_reminder before save_reminder
AddRejects(request) ==
    \/ request.timezone.kind = "none"
    \/ request.schedule_type \notin {"daily", "weekly"}
    \/ request.schedule_type = "weekly" /\ request.weekday.none

\* add_reminder: the checks, save_reminder, then _schedule_reminder
AddReminder(user_id, request) ==
    LET r == NewReminder(next_id, user_id, <<"ask">>,
                         [schedule_type |-> request.schedule_type,
                          weekday |-> request.weekday],
                         request.time, request.timezone, 0)
        st == SaveReminder([reminders |-> reminders, index |-> user_index,
                            next_id |-> next_id], r)
    IN  /\ Cardinality(reminders) < MaxReminders
        /\ IF AddRejects(request)
           THEN /\ add_result' = [raised |-> "ValueError", request |-> request]
                /\ UNCHANGED <<reminders, user_index, next_id, schedules>>
           ELSE /\ reminders' = st.reminders
                /\ user_index' = st.index
                /\ next_id' = st.next_id
                /\ schedules' = ScheduleReminder(schedules, r)
                /\ add_result' = [raised |-> IF ScheduleRaises(r) THEN "ValueError"
                                             ELSE "returned",
                                  request |-> request]
        /\ pass_log' = <<>>
        /\ UNCHANGED <<calendar, credentials, passes, pass_users, starts>>
        /\ UNCHANGED <<storeVars, turnVars, watchVars, auxVars>>

\* _restore_reminders: each active reminder is scheduled, a failure is logged
RECURSIVE RestoreReminders(_, _)
RestoreReminders(scheds, rs) ==
    IF rs = {} THEN scheds
    ELSE LET r == CHOOSE x \in rs : TRUE
         IN  RestoreReminders(ScheduleReminder(scheds, r), rs \ {r})

\* start, in a process started again: a scheduler with an empty data store,
\* then the reminders of the storage restored
StartScheduler ==
    /\ starts < MaxStarts
    /\ starts' = starts + 1
    /\ schedules' = RestoreReminders({}, {r \in reminders : r.is_active})
    /\ add_result' = NoAdd
    /\ pass_log' = <<>>
    /\ UNCHANGED <<reminders, user_index, next_id, calendar, credentials, passes,
                   pass_users>>
    /\ UNCHANGED <<storeVars, turnVars, watchVars, auxVars>>

\* what identifies a job: recurrence, time and payload
JobKey(r) ==
    [schedule_type |-> r.schedule_type, weekday |-> r.weekday, time |-> r.time,
     timezone |-> r.timezone, template |-> r.template]
\* the jobs of the storage, counted by what identifies them
JobBag(rs) ==
    [k \in {JobKey(r) : r \in rs} |-> Cardinality({r \in rs : JobKey(r) = k})]

\* _sync_from_calendar: one reconciliation pass
SyncFromCalendar ==
    LET existing == {r \in reminders : r.is_active}
        user_ids == {r.user_id : r \in existing}
        deleted == {r.id : r \in reminders}
        st0 == [reminders |-> {},
                index |-> [u \in Users |-> user_index[u] \ deleted],
                schedules |-> {s \in schedules : s.id \notin {r.id : r \in existing}},
                next_id |-> next_id,
                synced |-> {},
                raised |-> FALSE]
    IN  \E order \in Orders(user_ids) :
            LET st == SyncUsers(order, 1, credentials, calendar, st0)
            IN  /\ passes < MaxPasses
                /\ passes' = passes + 1
                /\ reminders' = st.reminders
                /\ user_index' = st.index
                /\ schedules' = st.schedules
                /\ next_id' = st.next_id
                /\ pass_users' = user_ids
                /\ pass_log' = Append(pass_log, JobBag(st.reminders))
                /\ add_result' = NoAdd
                /\ UNCHANGED <<calendar, credentials, starts>>
                /\ UNCHANGED <<storeVars, turnVars, watchVars, auxVars>>

\* the items of the calendars: two instances of a daily series as
\* events.list returns them with singleEvents, a daily and a weekly event
\* carrying their rule, an event without the tag, an all-day event
Tagged == Some(<<REMINDER_TAG, " ", "ask">>)
At(start) == [dateTime |-> Some(start), date |-> None(NoStart)]
DailyInstance(id) ==
    Item(id, 10, Tagged, At(DateTime(20, 0, 300, 2)), None(<<>>))
DailyEvent ==
    Item(20, 0, Tagged, At(DateTime(20, 0, 300, 2)), Some(<<RRULE_DAILY>>))
WeeklyEvent ==
    Item(30, 0, Some(<<REMINDER_TAG, " ", "call", " ">>),
         At(DateTime(9, 30, -210, 4)), Some(<<WeeklyRule(<<"F","R">>)>>))
PlainEvent ==
    Item(40, 0, Some(<<"lunch">>), At(DateTime(13, 0, 300, 2)), None(<<>>))
AllDayEvent ==
    Item(50, 0, Tagged, [dateTime |-> None(NoStart), date |-> Some(Date(3))],
         Some(<<RRULE_DAILY>>))
Calendars ==
    {<<>>, <<DailyInstance(11)>>, <<DailyInstance(11), DailyInstance(12)>>,
     <<DailyEvent>>, <<WeeklyEvent>>, <<PlainEvent, DailyEvent>>,
     <<AllDayEvent>>, <<DailyEvent, DailyInstance(11)>>,
     <<WeeklyEvent, DailyEvent>>, <<DailyInstance(11), WeeklyEvent>>}
\* the calendars of the second user
OtherCalendars == {<<>>, <<DailyEvent>>, <<DailyInstance(11)>>}

InitSync ==
    /\ reminders = {}
    /\ user_index = [u \in Users |-> {}]
    /\ schedules = {}
    /\ next_id = 1
    /\ calendar \in {c \in [Users -> Calendars] : c[2] \in OtherCalendars}
    /\ credentials \in [Users -> {"ok", "none", "error"}]
    /\ passes = 0
    /\ pass_users = {}
    /\ pass_log = <<>>
    /\ add_result = NoAdd
    /\ starts = 0
    /\ StoreIdle
    /\ TurnIdle
    /\ WatchIdle
    /\ AuxIdle

NextSync ==
    \/ \E u \in Users, request \in AcceptedRequests : AddReminder(u, request)
    \/ SyncFromCalendar

SpecSync == InitSync /\ [][NextSync]_vars

\* the scheduler with no calendar behind it: reminders added, the process
\* started again
InitScheduler ==
    /\ SyncIdle
    /\ StoreIdle
    /\ TurnIdle
    /\ WatchIdle
    /\ AuxIdle

NextScheduler ==
    \/ \E u \in Users, request \in ReminderRequests : AddReminder(u, request)
    \/ StartScheduler

SpecScheduler == InitScheduler /\ [][NextScheduler]_vars

(***************************************************************************)
(* Watchers: the stored watcher records, the chats they watch and the      *)
(* tick that fetches, filters and delivers new messages.                   *)
(***************************************************************************)
\* get_messages_since: `limit: int = 500`
FETCH_LIMIT == 500

\* chat_ids lists a watcher may be created with
ChatLists == {<<"a">>, <<"a", "b">>}

\* create_watcher: no check yet, no message ids
NewWatcher(user_id, chat_ids) ==
    [exists |-> TRUE, user_id |-> user_id, chat_ids |-> chat_ids,
     last_check_at |-> "none", last_message_ids |-> [c \in Chats |-> 0]]

MinId(S) == CHOOSE i \in S : \A j \in S : i <= j
\* the cursor taken from the oldest message instead of the newest
MaxId_Oldest(S) == CHOOSE i \in S : \A j \in S : i <= j
\* max(m["id"] for m in messages)
MaxId(S) == CHOOSE i \in S : \A j \in S : i >= j

\* get_messages_since: of the messages with an id above min_id the `limit`
\* newest, of these the ones with a text; nothing when the client fails
GetMessagesSince(log, min_id, limit, reachable) ==
    LET newer == {i \in 1..Len(log) : i > min_id}
        taken == {i \in newer : Cardinality({j \in newer : j > i}) < limit}
    IN  IF reachable THEN {i \in taken : log[i]} ELSE {}

\* the messages of a chat, oldest first
RECURSIVE Ascending(_, _)
Ascending(chat, ids) ==
    IF ids = {} THEN <<>>
    ELSE <<[chat |-> chat, id |-> MinId(ids)]>>
         \o Ascending(chat, ids \ {MinId(ids)})

\* fetch_new_chat_messages: the loop over chat_ids
RECURSIVE FetchChats(_, _, _, _, _, _)
FetchChats(logs, chat_ids, i, last_message_ids, reachable, acc) ==
    IF i > Len(chat_ids) THEN acc
    ELSE LET chat_id == chat_ids[i]
             min_id == last_message_ids[chat_id]
             latest == GetMessagesSince(logs[chat_id], 0, 1, chat_id \in reachable)
             messages == GetMessagesSince(logs[chat_id], min_id, FETCH_LIMIT,
                                          chat_id \in reachable)
             next ==
                 IF min_id = 0
                 THEN IF latest # {}
                      THEN [acc EXCEPT !.last_message_ids[chat_id] = MaxId(latest)]
                      ELSE acc
                 ELSE IF messages # {}
                      THEN [messages |-> acc.messages \o Ascending(chat_id, messages),
                            last_message_ids |->
                                [acc.last_message_ids EXCEPT
                                    ![chat_id] = MaxId(messages)]]
                      ELSE acc
         IN  FetchChats(logs, chat_ids, i + 1, last_message_ids, reachable, next)

FetchNewChatMessages(logs, chat_ids, last_message_ids, reachable) ==
    FetchChats(logs, chat_ids, 1, last_message_ids, reachable,
               [messages |-> <<>>, last_message_ids |-> last_message_ids])

\* _filter_batch: the messages at the numbers the LLM answered with
FilterBatch(messages, indices) ==
    {messages[num] : num \in {n \in indices : 1 <= n /\ n <= Len(messages)}}

\* the answers of the filter LLM: numbers of the batch
FilterAnswers == {{}, {1}, {2, 3}, {1, 2, 3, 4}}

\* create_watcher
CreateWatcher(w) ==
    \E chat_ids \in ChatLists :
        /\ ~watchers[w].exists
        /\ watchers' = [watchers EXCEPT ![w] = NewWatcher(1, chat_ids)]
        /\ UNCHANGED <<chat_log, last_tick, seen, refetched>>
        /\ UNCHANGED <<storeVars, turnVars, syncVars, auxVars>>

\* a message appears in a chat; its id is the next of the chat
PostMessage(c) ==
    \E text \in BOOLEAN :
        /\ Len(chat_log["a"]) + Len(chat_log["b"]) < MaxMsgs
        /\ chat_log' = [chat_log EXCEPT ![c] = Append(@, text)]
        /\ UNCHANGED <<watchers, last_tick, seen, refetched>>
        /\ UNCHANGED <<storeVars, turnVars, syncVars, auxVars>>

NoTick(w) ==
    [ran |-> FALSE, ok |-> FALSE, pre |-> watchers[w].last_message_ids,
     fetched |-> {}, sent |-> {}]

FetchFailed_Ignored(fetch_ok) == FALSE
\* `if not result.get("success", False): return`
FetchFailed(fetch_ok) == ~fetch_ok

\* _process_watcher: the record after the tick and what the tick did
ProcessWatcher(w, fetch_ok, reachable, answer) ==
    LET watcher == watchers[w]
        result == FetchNewChatMessages(chat_log, watcher.chat_ids,
                                       watcher.last_message_ids, reachable)
        fetched == {result.messages[i] : i \in DOMAIN result.messages}
    IN  IF FetchFailed(fetch_ok)
        THEN [watcher |-> watcher,
              tick |-> [NoTick(w) EXCEPT !.ran = TRUE]]
        ELSE [watcher |-> [watcher EXCEPT
                              !.last_check_at = "set",
                              !.last_message_ids = result.last_message_ids],
              tick |-> [ran |-> TRUE, ok |-> fetch_ok,
                        pre |-> watcher.last_message_ids,
                        fetched |-> fetched,
                        sent |-> FilterBatch(result.messages, answer)]]

\* _tick: every watcher that is due is processed
Tick ==
    \E elapsed \in SUBSET WatcherIds, fetch_ok \in SUBSET WatcherIds,
       reachable \in SUBSET Chats, answer \in FilterAnswers :
        LET due == {w \in WatcherIds :
                       /\ watchers[w].exists
                       /\ \/ watchers[w].last_check_at = "none"
                          \/ w \in elapsed}
            done == [w \in WatcherIds |->
                        IF w \in due
                        THEN ProcessWatcher(w, w \in fetch_ok, reachable, answer)
                        ELSE [watcher |-> watchers[w], tick |-> NoTick(w)]]
        IN  /\ watchers' = [w \in WatcherIds |-> done[w].watcher]
            /\ last_tick' = [w \in WatcherIds |-> done[w].tick]
            /\ refetched' = refetched \cup
                   UNION {{[w |-> w, m |-> m] : m \in done[w].tick.fetched \cap seen[w]}
                          : w \in WatcherIds}
            /\ seen' = [w \in WatcherIds |-> seen[w] \cup done[w].tick.fetched]
            /\ UNCHANGED chat_log
            /\ UNCHANGED <<storeVars, turnVars, syncVars, auxVars>>

InitWatcher ==
    /\ WatchIdle
    /\ AuxIdle
    /\ StoreIdle
    /\ TurnIdle
    /\ SyncIdle

NextWatcher ==
    \/ \E w \in WatcherIds : CreateWatcher(w)
    \/ \E c \in Chats : PostMessage(c)
    \/ Tick

SpecWatcher == InitWatcher /\ [][NextWatcher]_vars

(***************************************************************************)
(* RetryHandler.execute, one invocation of the wrapped call at a time      *)
(***************************************************************************)
\* the handlers execute is checked with
RetryConfigs ==
    {[max_retries |-> r, base_delay |-> b, max_delay |-> 60, rate_limit_delay |-> 30] :
        r \in {0, 1, MAX_RETRIES}, b \in {1, 20}}

\* the retry-after header of a rate-limit error: no response, no header, an
\* empty header, a number of seconds, or text that is no number
NoResponse == [response |-> FALSE, header |-> FALSE, numeric |-> FALSE, val |-> 0]
NoHeader == [response |-> TRUE, header |-> FALSE, numeric |-> FALSE, val |-> 0]
EmptyHeader == [response |-> TRUE, header |-> TRUE, numeric |-> FALSE, val |-> 0]
DateHeader == [response |-> TRUE, header |-> TRUE, numeric |-> FALSE, val |-> 1]
SecondsHeader(n) == [response |-> TRUE, header |-> TRUE, numeric |-> TRUE, val |-> n]
RetryAfterHints ==
    {NoResponse, NoHeader, EmptyHeader, DateHeader,
     SecondsHeader(0), SecondsHeader(5), SecondsHeader(60), SecondsHeader(120)}

\* what one invocation of the wrapped call does
CallOutcome(kind, hint) == [kind |-> kind, hint |-> hint]
CallOutcomes ==
    {CallOutcome(k, NoResponse) :
        k \in {"ok", "APITimeoutError", "APIConnectionError", "Exception"}}
    \cup {CallOutcome("RateLimitError", h) : h \in RetryAfterHints}

Min2(a, b) == IF a <= b THEN a ELSE b
RECURSIVE Pow2(_)
Pow2(n) == IF n = 0 THEN 1 ELSE 2 * Pow2(n - 1)

\* the backoff without the cap
CalculateDelay_NoCap(config, attempt) == config.base_delay * Pow2(attempt)
\* _calculate_delay
CalculateDelay(config, attempt) ==
    Min2(config.base_delay * Pow2(attempt), config.max_delay)

\* the delay of a rate limit taken from the default whatever the header says
GetRateLimitDelay_DefaultOnly(config, hint) == config.rate_limit_delay
\* _get_rate_limit_delay
GetRateLimitDelay(config, hint) ==
    IF hint.response /\ hint.header /\ hint # EmptyHeader /\ hint.numeric
    THEN Min2(hint.val, config.max_delay)
    ELSE config.rate_limit_delay

\* one iteration of the loop that treats a rate-limit error as a transient one
RetryStep_RetriesRateLimit(config, attempt, out) ==
    IF out.kind = "ok"
    THEN [state |-> "returned", attempt |-> attempt, sleep |-> <<>>,
          raised |-> NoException]
    ELSE IF out.kind \in {"APITimeoutError", "APIConnectionError", "RateLimitError"}
    THEN IF attempt < config.max_retries
         THEN [state |-> "running", attempt |-> attempt + 1,
               sleep |-> <<CalculateDelay(config, attempt)>>,
               raised |-> NoException]
         ELSE [state |-> "raised", attempt |-> attempt, sleep |-> <<>>,
               raised |-> [kind |-> out.kind, retry_after |-> 0]]
    ELSE [state |-> "raised", attempt |-> attempt, sleep |-> <<>>,
          raised |-> [kind |-> out.kind, retry_after |-> 0]]
\* one iteration of `for attempt in range(self.max_retries + 1)`; the
\* iteration that ends the loop also raises last_exception
RetryStep(config, attempt, out) ==
    IF out.kind = "ok"
    THEN [state |-> "returned", attempt |-> attempt, sleep |-> <<>>,
          raised |-> NoException]
    ELSE IF out.kind = "RateLimitError"
    THEN [state |-> "raised", attempt |-> attempt, sleep |-> <<>>,
          raised |-> [kind |-> "RateLimitException",
                      retry_after |-> GetRateLimitDelay(config, out.hint)]]
    ELSE IF out.kind \in {"APITimeoutError", "APIConnectionError"}
    THEN IF attempt < config.max_retries
         THEN [state |-> "running", attempt |-> attempt + 1,
               sleep |-> <<CalculateDelay(config, attempt)>>,
               raised |-> NoException]
         ELSE [state |-> "raised", attempt |-> attempt, sleep |-> <<>>,
               raised |-> [kind |-> out.kind, retry_after |-> 0]]
    ELSE [state |-> "raised", attempt |-> attempt, sleep |-> <<>>,
          raised |-> [kind |-> out.kind, retry_after |-> 0]]

\* execute is called
RetryBegin ==
    /\ rh_state = "idle"
    /\ rh_state' = "running"
    /\ UNCHANGED <<rh_config, rh_attempt, rh_outcomes, rh_sleeps, rh_raised>>
    /\ UNCHANGED <<storeVars, turnVars, syncVars, watchVars, registryVars, inboundVars, raceVars, lifeVars, createVars, persistVars, fireVars, workerVars, filterVars, rateVars, confirmVars, deleteVars>>

\* the wrapped call is invoked once and its outcome handled
RetryAttempt ==
    \E out \in CallOutcomes :
        LET step == RetryStep(rh_config, rh_attempt, out)
        IN  /\ rh_state = "running"
            /\ rh_outcomes' = Append(rh_outcomes, out)
            /\ rh_state' = step.state
            /\ rh_attempt' = step.attempt
            /\ rh_sleeps' = rh_sleeps \o step.sleep
            /\ rh_raised' = step.raised
            /\ UNCHANGED rh_config
            /\ UNCHANGED <<storeVars, turnVars, syncVars, watchVars, registryVars, inboundVars, raceVars, lifeVars, createVars, persistVars, fireVars, workerVars, filterVars, rateVars, confirmVars, deleteVars>>

InitRetry ==
    /\ rh_config \in RetryConfigs
    /\ rh_attempt = 0
    /\ rh_outcomes = <<>>
    /\ rh_sleeps = <<>>
    /\ rh_state = "idle"
    /\ rh_raised = NoException
    /\ StoreIdle
    /\ TurnIdle
    /\ SyncIdle
    /\ WatchIdle
    /\ RegistryIdle
    /\ InboundIdle
    /\ RaceIdle
    /\ LifeIdle
    /\ CreateIdle
    /\ PersistIdle
    /\ FireIdle
    /\ WorkerIdle
    /\ FilterIdle
    /\ RateIdle
    /\ ConfirmIdle
    /\ DeleteIdle

NextRetry ==
    \/ RetryBegin
    \/ RetryAttempt

SpecRetry == InitRetry /\ [][NextRetry]_vars

(***************************************************************************)
(* ToolRegistry and MCPRepository: the tools of the servers, the schemas   *)
(* shown to the LLM and the dispatch of a call                             *)
(***************************************************************************)
\* a tool as a server lists it: name, properties and required of inputSchema
Tool(name, properties, required) ==
    [name |-> name, properties |-> properties, required |-> required]

\* RespondToUserTool.to_openai_tool
RespondToUserSchema == Tool("respond_to_user", {"response"}, {"response"})

\* the names of the MCP servers main.py connects to
ServerNames == {"google", "summaries"}

\* what list_tools of a server may answer
ToolOffers ==
    {<<>>,
     <<Tool("get_tasks", {"x", "user_id"}, {"x", "user_id"})>>,
     <<Tool("get_tasks", {"user_id"}, {}), Tool("get_channels", {"x"}, {"x"})>>,
     <<Tool("respond_to_user", {"response", "user_id"}, {"user_id"})>>}

\* self._all_tools[tool.name] = {...}: a key keeps its place in the dict
RECURSIVE DictSet(_, _)
DictSet(dict, entry) ==
    IF \E i \in DOMAIN dict : dict[i].name = entry.name
    THEN [i \in DOMAIN dict |-> IF dict[i].name = entry.name THEN entry ELSE dict[i]]
    ELSE Append(dict, entry)
RECURSIVE DictSetAll(_, _, _, _)
DictSetAll(dict, server_name, tools, i) ==
    IF i > Len(tools) THEN dict
    ELSE DictSetAll(DictSet(dict, [name |-> tools[i].name,
                                   server_name |-> server_name,
                                   schema |-> tools[i]]),
                    server_name, tools, i + 1)

\* MCPRepository.tool_names
tool_names == {mcp_all_tools[i].name : i \in DOMAIN mcp_all_tools}

\* get_tool_schemas: user_id is taken out of properties and required
get_tool_schemas ==
    [i \in DOMAIN mcp_all_tools |->
        Tool(mcp_all_tools[i].name,
             mcp_all_tools[i].schema.properties \ {"user_id"},
             mcp_all_tools[i].schema.required \ {"user_id"})]

\* the argument dict with user_id left as the caller of the LLM gave it
InjectUserId_KeepSupplied(arguments, user_id) ==
    [k \in DOMAIN arguments \cup {"user_id"} |->
        IF k \in DOMAIN arguments THEN arguments[k] ELSE user_id]
\* arguments["user_id"] = user_id
InjectUserId(arguments, user_id) ==
    [k \in DOMAIN arguments \cup {"user_id"} |->
        IF k = "user_id" THEN user_id ELSE arguments[k]]

\* the argument dicts the LLM may supply
Args1(k, v) == [x \in {k} |-> v]
Args2(k1, v1, k2, v2) == [x \in {k1, k2} |-> IF x = k1 THEN v1 ELSE v2]
ArgumentDicts ==
    {NoArguments, Args1("x", 5), Args1("user_id", 2), Args2("x", 5, "user_id", 2),
     Args1("response", 7)}

\* MCPRepository.connect: a server is registered once, with the tools it lists
McpConnect(name) ==
    \E tools \in ToolOffers :
        /\ name \notin mcp_servers
        /\ mcp_servers' = mcp_servers \cup {name}
        /\ mcp_all_tools' = DictSetAll(mcp_all_tools, name, tools, 1)
        /\ UNCHANGED <<tool_listing, remote_call, exec_result>>
        /\ UNCHANGED <<storeVars, turnVars, syncVars, watchVars, retryVars, inboundVars, raceVars, lifeVars, createVars, persistVars, fireVars, workerVars, filterVars, rateVars, confirmVars, deleteVars>>

\* ToolRegistry.get_all_tools: the local tools, then the MCP tools
GetAllTools ==
    /\ tool_listing' = <<RespondToUserSchema>> \o get_tool_schemas
    /\ UNCHANGED <<mcp_servers, mcp_all_tools, remote_call, exec_result>>
    /\ UNCHANGED <<storeVars, turnVars, syncVars, watchVars, retryVars, inboundVars, raceVars, lifeVars, createVars, persistVars, fireVars, workerVars, filterVars, rateVars, confirmVars, deleteVars>>

\* ToolRegistry.execute_tool(name, user_id, arguments)
ExecuteToolCall(name, user_id) ==
    \E arguments \in ArgumentDicts :
        /\ IF name \in LocalTools
           THEN \* execute(user_id, **arguments): user_id may be given once
                /\ exec_result' =
                      IF "user_id" \in DOMAIN arguments
                      THEN [kind |-> "TypeError", value |-> NoArguments]
                      ELSE [kind |-> "local", value |-> arguments]
                /\ UNCHANGED remote_call
           ELSE IF name \in tool_names
           THEN LET info == mcp_all_tools[CHOOSE i \in DOMAIN mcp_all_tools :
                                             mcp_all_tools[i].name = name]
                    sent_args == InjectUserId(arguments, user_id)
                IN  /\ remote_call' = [name |-> name,
                                       server_name |-> info.server_name,
                                       caller |-> user_id,
                                       supplied |-> arguments,
                                       arguments |-> sent_args]
                    /\ exec_result' = [kind |-> "remote", value |-> sent_args]
           ELSE /\ exec_result' = [kind |-> "ValueError", value |-> NoArguments]
                /\ UNCHANGED remote_call
        /\ UNCHANGED <<mcp_servers, mcp_all_tools, tool_listing>>
        /\ UNCHANGED <<storeVars, turnVars, syncVars, watchVars, retryVars, inboundVars, raceVars, lifeVars, createVars, persistVars, fireVars, workerVars, filterVars, rateVars, confirmVars, deleteVars>>

\* the names the LLM may call
CallableNames == {"respond_to_user", "get_tasks", "get_channels", "no_such_tool"}

InitRegistry ==
    /\ RegistryIdle
    /\ RetryIdle
    /\ InboundIdle
    /\ StoreIdle
    /\ TurnIdle
    /\ SyncIdle
    /\ WatchIdle
    /\ RaceIdle
    /\ LifeIdle
    /\ CreateIdle
    /\ PersistIdle
    /\ FireIdle
    /\ WorkerIdle
    /\ FilterIdle
    /\ RateIdle
    /\ ConfirmIdle
    /\ DeleteIdle

NextRegistry ==
    \/ \E name \in ServerNames : McpConnect(name)
    \/ GetAllTools
    \/ \E name \in CallableNames, user_id \in Users : ExecuteToolCall(name, user_id)

SpecRegistry == InitRegistry /\ [][NextRegistry]_vars

(***************************************************************************)
(* handle_text_message: one inbound text message, from its arrival to the  *)
(* end of the handler                                                      *)
(***************************************************************************)
\* the length above which the response is sent in pieces
TELEGRAM_LIMIT == 4096
\* the attempts of the rate-limit loop of the handler
HANDLER_MAX_RETRIES == 3

\* what the chat call comes back with: a text by its length, the
\* auth_required dict, or an exception
ChatOutcomes ==
    {[kind |-> "text", len |-> 10], [kind |-> "text", len |-> TELEGRAM_LIMIT + 1],
     [kind |-> "text", len |-> 0], [kind |-> "auth_required", len |-> 0],
     [kind |-> "RateLimitException", len |-> 0], [kind |-> "Exception", len |-> 0]}

\* range(0, len(response), 4096)
RECURSIVE Chunks(_)
Chunks(len) ==
    IF len <= 0 THEN <<>>
    ELSE IF len <= TELEGRAM_LIMIT THEN <<"answer">>
    ELSE <<"answer">> \o Chunks(len - TELEGRAM_LIMIT)

HandlerEnded == in_pc \in {"idle", "done", "escaped"}

\* the dispatcher hands a text message to handle_text_message
ReceiveText ==
    /\ HandlerEnded
    /\ in_turns < MaxTurns
    /\ in_turns' = in_turns + 1
    /\ in_answers' = <<>>
    /\ in_attempt' = 0
    /\ in_response' = NoResponseYet
    /\ in_pc' = IF in_variant = "legacy" THEN "intercept" ELSE "typing"
    /\ UNCHANGED <<in_variant, in_setup>>
    /\ UNCHANGED <<storeVars, turnVars, syncVars, watchVars, retryVars, registryVars, raceVars, lifeVars, createVars, persistVars, fireVars, workerVars, filterVars, rateVars, confirmVars, deleteVars>>

\* process_notion_setup_input, called before the try of the legacy handler
ProcessNotionSetupInput ==
    /\ in_pc = "intercept"
    /\ \E valid \in BOOLEAN, storage_ok \in BOOLEAN :
          IF in_setup = "none"
          THEN /\ in_pc' = "typing"
               /\ UNCHANGED <<in_setup, in_answers>>
          ELSE IF ~valid
          THEN /\ in_answers' = Append(in_answers, "setup")
               /\ in_pc' = "done"
               /\ UNCHANGED in_setup
          ELSE IF in_setup = "token"
          THEN /\ in_setup' = "parent_page"
               /\ in_answers' = Append(in_answers, "setup")
               /\ in_pc' = "done"
          ELSE IF storage_ok
          THEN /\ in_setup' = "none"
               /\ in_answers' = Append(in_answers, "setup")
               /\ in_pc' = "done"
          ELSE \* set_notion_token raises: nothing catches it
               /\ in_pc' = "escaped"
               /\ UNCHANGED <<in_setup, in_answers>>
    /\ UNCHANGED <<in_variant, in_attempt, in_response, in_turns>>
    /\ UNCHANGED <<storeVars, turnVars, syncVars, watchVars, retryVars, registryVars, raceVars, lifeVars, createVars, persistVars, fireVars, workerVars, filterVars, rateVars, confirmVars, deleteVars>>

\* message.bot.send_chat_action, called before the try
SendChatAction ==
    /\ in_pc = "typing"
    /\ \E ok \in BOOLEAN : in_pc' = IF ok THEN "calling" ELSE "escaped"
    /\ UNCHANGED <<in_variant, in_setup, in_attempt, in_response, in_answers, in_turns>>
    /\ UNCHANGED <<storeVars, turnVars, syncVars, watchVars, retryVars, registryVars, raceVars, lifeVars, createVars, persistVars, fireVars, workerVars, filterVars, rateVars, confirmVars, deleteVars>>

\* one pass of the loop of _get_chat_response_with_rate_limit_handling
GetChatResponse ==
    /\ in_pc = "calling"
    /\ \E out \in ChatOutcomes, typing_ok \in BOOLEAN :
          IF out.kind = "RateLimitException"
          THEN IF in_attempt < HANDLER_MAX_RETRIES - 1
               THEN /\ in_answers' = Append(in_answers, "wait")
                    /\ in_attempt' = in_attempt + 1
                    /\ in_pc' = IF typing_ok THEN "calling" ELSE "failed"
                    /\ UNCHANGED in_response
               ELSE /\ in_pc' = "failed"
                    /\ UNCHANGED <<in_answers, in_attempt, in_response>>
          ELSE IF out.kind = "Exception"
          THEN /\ in_pc' = "failed"
               /\ UNCHANGED <<in_answers, in_attempt, in_response>>
          ELSE /\ in_response' = out
               /\ in_pc' = "sending"
               /\ UNCHANGED <<in_answers, in_attempt>>
    /\ UNCHANGED <<in_variant, in_setup, in_turns>>
    /\ UNCHANGED <<storeVars, turnVars, syncVars, watchVars, retryVars, registryVars, raceVars, lifeVars, createVars, persistVars, fireVars, workerVars, filterVars, rateVars, confirmVars, deleteVars>>

\* _send_response: message.answer with an empty text is refused by Telegram
AnswerResponse ==
    /\ in_pc = "sending"
    /\ IF in_response.kind = "auth_required"
       THEN /\ in_answers' = Append(in_answers, "auth_required")
            /\ in_pc' = "done"
       ELSE IF in_response.len = 0
       THEN /\ in_pc' = "failed"
            /\ UNCHANGED in_answers
       ELSE /\ in_answers' = in_answers \o Chunks(in_response.len)
            /\ in_pc' = "done"
    /\ UNCHANGED <<in_variant, in_setup, in_attempt, in_response, in_turns>>
    /\ UNCHANGED <<storeVars, turnVars, syncVars, watchVars, retryVars, registryVars, raceVars, lifeVars, createVars, persistVars, fireVars, workerVars, filterVars, rateVars, confirmVars, deleteVars>>

\* except Exception: the generic error text is answered
AnswerError ==
    /\ in_pc = "failed"
    /\ in_answers' = Append(in_answers, "error")
    /\ in_pc' = "done"
    /\ UNCHANGED <<in_variant, in_setup, in_attempt, in_response, in_turns>>
    /\ UNCHANGED <<storeVars, turnVars, syncVars, watchVars, retryVars, registryVars, raceVars, lifeVars, createVars, persistVars, fireVars, workerVars, filterVars, rateVars, confirmVars, deleteVars>>

HandlerStep ==
    \/ ProcessNotionSetupInput
    \/ SendChatAction
    \/ GetChatResponse
    \/ AnswerResponse
    \/ AnswerError

InitInbound ==
    /\ in_variant \in {"core", "legacy"}
    /\ in_setup \in IF in_variant = "legacy" THEN {"none", "token", "parent_page"}
                     ELSE {"none"}
    /\ in_pc = "idle"
    /\ in_attempt = 0
    /\ in_response = NoResponseYet
    /\ in_answers = <<>>
    /\ in_turns = 0
    /\ RetryIdle
    /\ RegistryIdle
    /\ StoreIdle
    /\ TurnIdle
    /\ SyncIdle
    /\ WatchIdle
    /\ RaceIdle
    /\ LifeIdle
    /\ CreateIdle
    /\ PersistIdle
    /\ FireIdle
    /\ WorkerIdle
    /\ FilterIdle
    /\ RateIdle
    /\ ConfirmIdle
    /\ DeleteIdle

NextInbound ==
    \/ ReceiveText
    \/ ProcessNotionSetupInput
    \/ SendChatAction
    \/ GetChatResponse
    \/ AnswerResponse
    \/ AnswerError

\* a handler that was started runs on to its end
SpecInbound == InitInbound /\ [][NextInbound]_vars /\ WF_vars(HandlerStep)

(***************************************************************************)
(* Two turns of one owner running at once: each append of chat() is a get, *)
(* then a set of the list built from what the get returned                 *)
(***************************************************************************)
\* the owner both turns belong to
RaceOwner == 1
\* the user message and the reply a turn appends
TaskUserMsg(t) == UserMsg(2 * t - 1)
TaskReplyMsg(t) == AssistantMsg(2 * t)

\* the message of the append a turn is in
TaskMessage(t) == IF task_pc[t] = "got_user" THEN TaskUserMsg(t) ELSE TaskReplyMsg(t)

\* variant of the write of append that stores the list as it was read
WriteBack_Stale(local, message) == local
\* append after its get: the list read, with the message, trimmed, is what
\* redis.set stores
WriteBack(local, message) == AppendOp(local, message)

\* append, up to its first await: history = await self.get(user_id)
TaskGet(t) ==
    /\ task_pc[t] \in {"start", "llm"}
    /\ task_pc' = [task_pc EXCEPT ![t] = IF @ = "start" THEN "got_user" ELSE "got_reply"]
    /\ task_local' = [task_local EXCEPT ![t] = conversation[RaceOwner]]
    /\ overlapped' = (overlapped \/
                        \E u \in Tasks \ {t} : task_pc[u] \in {"got_user", "got_reply"})
    /\ UNCHANGED <<storeVars, turnVars, syncVars, watchVars>>
    /\ UNCHANGED <<retryVars, registryVars, inboundVars, lifeVars, createVars, persistVars, fireVars, workerVars, filterVars, rateVars, confirmVars, deleteVars>>

\* append, from redis.set on: the list is stored, the marker refreshed
TaskSet(t) ==
    /\ task_pc[t] \in {"got_user", "got_reply"}
    /\ conversation' = [conversation EXCEPT
                           ![RaceOwner] = WriteBack(task_local[t], TaskMessage(t))]
    /\ ttl_marker' = [ttl_marker EXCEPT ![RaceOwner] = TRUE]
    /\ task_pc' = [task_pc EXCEPT ![t] = IF @ = "got_user" THEN "llm" ELSE "done"]
    /\ UNCHANGED <<task_local, overlapped, msg_seq, last_op>>
    /\ UNCHANGED <<turnVars, syncVars, watchVars>>
    /\ UNCHANGED <<retryVars, registryVars, inboundVars, lifeVars, createVars, persistVars, fireVars, workerVars, filterVars, rateVars, confirmVars, deleteVars>>

InitRace ==
    /\ conversation \in [ConvOwners -> {<<>>, <<SystemMsg(0)>>,
                                         <<SystemMsg(0), UserMsg(11), AssistantMsg(12)>>}]
    /\ ttl_marker \in [ConvOwners -> BOOLEAN]
    /\ msg_seq = 0
    /\ last_op = [op |-> "none", owner |-> 0, pre_len |-> 0]
    /\ RaceIdle
    /\ TurnIdle
    /\ SyncIdle
    /\ WatchIdle
    /\ RetryIdle
    /\ RegistryIdle
    /\ InboundIdle
    /\ LifeIdle
    /\ CreateIdle
    /\ PersistIdle
    /\ FireIdle
    /\ WorkerIdle
    /\ FilterIdle
    /\ RateIdle
    /\ ConfirmIdle
    /\ DeleteIdle

NextRace ==
    \E t \in Tasks :
        \/ TaskGet(t)
        \/ TaskSet(t)

SpecRace == InitRace /\ [][NextRace]_vars

(***************************************************************************)
(* lifespan: the background tasks and the cleanup after `yield`            *)
(***************************************************************************)
\* the background tasks of a lifespan, in the order its cleanup stops them
CleanupOrder(variant) ==
    IF variant = "app" THEN <<"reminder", "summarization", "polling">>
    ELSE <<"watcher", "polling">>

\* SummarizationWorker._run has a finally that unsubscribes and closes its
\* pubsub; the other loops end when the cancellation reaches them
HasCleanup(t) == t = "summarization"

\* variant of the cleanup that goes on without waiting for the task
TaskAwaited_NoWait(t) == TRUE
\* `await task` after task.cancel(): over once the task has ended
TaskAwaited(t) == bg_pc[t] = "ended"

BgUnchanged == UNCHANGED <<storeVars, turnVars, syncVars, watchVars, retryVars,
                           registryVars, inboundVars, raceVars, createVars, persistVars, fireVars, workerVars, filterVars, rateVars, confirmVars, deleteVars>>

\* a store operation of a task, on the connection as it is
StoreOpBy(t) == late_ops' = IF redis_open THEN late_ops ELSE late_ops \cup {t}

\* the loop of a task wakes: an expired key, a tick that is due, an update
BgWake(t) ==
    /\ t \in Range(CleanupOrder(life_variant))
    /\ bg_pc[t] = "waiting"
    /\ ~bg_cancel[t]
    /\ bg_pc' = [bg_pc EXCEPT ![t] = "working"]
    /\ UNCHANGED <<life_variant, life_pc, life_idx, redis_open, bg_cancel,
                   bg_interrupted, late_ops>>
    /\ BgUnchanged

\* a store operation of the tick, the last one of it or not
BgStoreOp(t) ==
    /\ bg_pc[t] = "working"
    /\ ~bg_cancel[t]
    /\ StoreOpBy(t)
    /\ \E last \in BOOLEAN :
          bg_pc' = [bg_pc EXCEPT ![t] = IF last THEN "waiting" ELSE "working"]
    /\ UNCHANGED <<life_variant, life_pc, life_idx, redis_open, bg_cancel,
                   bg_interrupted>>
    /\ BgUnchanged

\* CancelledError is raised at the await the task stands at
BgCancelled(t) ==
    /\ bg_cancel[t]
    /\ bg_pc[t] \in {"waiting", "working"}
    /\ bg_cancel' = [bg_cancel EXCEPT ![t] = FALSE]
    /\ bg_interrupted' = [bg_interrupted EXCEPT ![t] = bg_pc[t]]
    /\ bg_pc' = [bg_pc EXCEPT ![t] = IF HasCleanup(t) THEN "cleanup" ELSE "ended"]
    /\ UNCHANGED <<life_variant, life_pc, life_idx, redis_open, late_ops>>
    /\ BgUnchanged

\* finally: await pubsub.unsubscribe(); await pubsub.close()
BgCleanup(t) ==
    /\ bg_pc[t] = "cleanup"
    /\ StoreOpBy(t)
    /\ bg_pc' = [bg_pc EXCEPT ![t] = "ended"]
    /\ UNCHANGED <<life_variant, life_pc, life_idx, redis_open, bg_cancel,
                   bg_interrupted>>
    /\ BgUnchanged

\* the server shuts down: lifespan goes on after `yield`
LifeShutdown ==
    /\ life_pc = "serving"
    /\ life_pc' = "cancel"
    /\ UNCHANGED <<life_variant, life_idx, redis_open, bg_pc, bg_cancel,
                   bg_interrupted, late_ops>>
    /\ BgUnchanged

\* task.cancel() (for the schedulers, inside their stop)
LifeCancel ==
    /\ life_pc = "cancel"
    /\ life_idx <= Len(CleanupOrder(life_variant))
    /\ bg_cancel' = [bg_cancel EXCEPT ![CleanupOrder(life_variant)[life_idx]] = TRUE]
    /\ life_pc' = "await"
    /\ UNCHANGED <<life_variant, life_idx, redis_open, bg_pc, bg_interrupted, late_ops>>
    /\ BgUnchanged

\* try: await task / except CancelledError: pass
LifeAwait ==
    /\ life_pc = "await"
    /\ TaskAwaited(CleanupOrder(life_variant)[life_idx])
    /\ life_idx' = life_idx + 1
    /\ life_pc' = IF life_idx < Len(CleanupOrder(life_variant)) THEN "cancel" ELSE "close"
    /\ UNCHANGED <<life_variant, redis_open, bg_pc, bg_cancel, bg_interrupted, late_ops>>
    /\ BgUnchanged

\* await redis.close()
LifeClose ==
    /\ life_pc = "close"
    /\ redis_open' = FALSE
    /\ life_pc' = "closed"
    /\ UNCHANGED <<life_variant, life_idx, bg_pc, bg_cancel, bg_interrupted, late_ops>>
    /\ BgUnchanged

InitLife ==
    /\ life_variant \in {"app", "core"}
    /\ life_pc = "serving"
    /\ life_idx = 1
    /\ redis_open = TRUE
    /\ bg_pc = [t \in BgNames |-> "waiting"]
    /\ bg_cancel = [t \in BgNames |-> FALSE]
    /\ bg_interrupted = [t \in BgNames |-> "none"]
    /\ late_ops = {}
    /\ StoreIdle
    /\ TurnIdle
    /\ SyncIdle
    /\ WatchIdle
    /\ RetryIdle
    /\ RegistryIdle
    /\ InboundIdle
    /\ RaceIdle
    /\ CreateIdle
    /\ PersistIdle
    /\ FireIdle
    /\ WorkerIdle
    /\ FilterIdle
    /\ RateIdle
    /\ ConfirmIdle
    /\ DeleteIdle

NextLife ==
    \/ \E t \in BgNames : BgWake(t)
    \/ \E t \in BgNames : BgStoreOp(t)
    \/ \E t \in BgNames : BgCancelled(t)
    \/ \E t \in BgNames : BgCleanup(t)
    \/ LifeShutdown
    \/ LifeCancel
    \/ LifeAwait
    \/ LifeClose

SpecLife == InitLife /\ [][NextLife]_vars

(***************************************************************************)
(* The create_reminder tool and the confirm_reminder callback              *)
(***************************************************************************)
\* the arguments the LLM may call create_reminder with
ToolRequests ==
    {r \in ReminderRequests : r.timezone = IanaZone} \cup
    {Request("daily", None(0), <<25, 0>>, IanaZone),
     Request("daily", None(0), <<9, 30>>, IanaZone)}

\* the checks of create_reminder: schedule type, weekday, time
ToolRejects(request) ==
    IF request.schedule_type \notin {"daily", "weekly"} THEN "invalid_schedule_type"
    ELSE IF request.schedule_type = "weekly" /\ request.weekday.none THEN "missing_weekday"
    ELSE IF ~TimeParses(request.time) THEN "invalid_time"
    ELSE IF ~(request.time[1] \in 0..23 /\ request.time[2] \in 0..59) THEN "invalid_time"
    ELSE ""

\* the recurring calendar event made for a reminder
ReminderEvent(id, request) ==
    Item(id, 0, Tagged,
         At(DateTime(request.time[1], request.time[2], 300,
                     IF request.weekday.none THEN 2 ELSE request.weekday.val)),
         Some(<<IF request.schedule_type = "daily" THEN RRULE_DAILY
                ELSE WeeklyRule(day_map[(IF request.weekday.none THEN 0
                                         ELSE request.weekday.val) + 1])>>))

\* create_event, save_reminder, _schedule_reminder: what the tool and the
\* confirm handler both do once the request is accepted
PersistReminder(user_id, request) ==
    LET event_id == 100 + next_id
        r == NewReminder(next_id, user_id, <<"ask">>,
                         [schedule_type |-> request.schedule_type,
                          weekday |-> request.weekday],
                         request.time, IanaZone, event_id)
        st == SaveReminder([reminders |-> reminders, index |-> user_index,
                            next_id |-> next_id], r)
    IN  /\ calendar' = [calendar EXCEPT ![user_id] = Append(@, ReminderEvent(event_id, request))]
        /\ reminders' = st.reminders
        /\ user_index' = st.index
        /\ next_id' = st.next_id
        /\ schedules' = ScheduleReminder(schedules, r)

CreateUnchanged ==
    /\ UNCHANGED <<credentials, passes, pass_users, pass_log, add_result, starts>>
    /\ UNCHANGED <<storeVars, turnVars, watchVars, retryVars, registryVars,
                   inboundVars, raceVars, lifeVars, persistVars, fireVars, workerVars, filterVars, rateVars, confirmVars, deleteVars>>

\* CreateReminderTool.execute
CreateReminderExecute(user_id, request) ==
    \E event_ok \in BOOLEAN :
        /\ Cardinality(reminders) < MaxReminders
        /\ IF ToolRejects(request) # ""
           THEN /\ tool_reply' = [by |-> "tool", success |-> FALSE,
                                  error |-> ToolRejects(request)]
                /\ UNCHANGED <<reminders, user_index, next_id, schedules, calendar>>
           ELSE IF credentials[user_id] # "ok"
           THEN /\ tool_reply' = [by |-> "tool", success |-> FALSE,
                                  error |-> "not_authorized"]
                /\ UNCHANGED <<reminders, user_index, next_id, schedules, calendar>>
           ELSE IF ~event_ok
           THEN /\ tool_reply' = [by |-> "tool", success |-> FALSE,
                                  error |-> "scheduler_error"]
                /\ UNCHANGED <<reminders, user_index, next_id, schedules, calendar>>
           ELSE /\ PersistReminder(user_id, request)
                /\ tool_reply' = [by |-> "tool", success |-> TRUE, error |-> ""]
        /\ UNCHANGED pending
        /\ CreateUnchanged

\* handle_confirm_reminder, for a confirmation id and the user who pressed
ConfirmReminder(confirmation_id, user_id) ==
    \E event_ok \in BOOLEAN :
        LET found == {p \in pending : p.id = confirmation_id}
        IN  /\ Cardinality(reminders) < MaxReminders
            /\ IF found = {}
               THEN /\ tool_reply' = [by |-> "confirm", success |-> FALSE,
                                      error |-> "expired"]
                    /\ UNCHANGED <<reminders, user_index, next_id, schedules,
                                   calendar, pending>>
               ELSE LET p == CHOOSE x \in found : TRUE
                    IN  IF p.user_id # user_id
                        THEN /\ tool_reply' = [by |-> "confirm", success |-> FALSE,
                                               error |-> "other_user"]
                             /\ UNCHANGED <<reminders, user_index, next_id, schedules,
                                            calendar, pending>>
                        ELSE IF credentials[user_id] # "ok"
                        THEN /\ tool_reply' = [by |-> "confirm", success |-> FALSE,
                                               error |-> "not_authorized"]
                             /\ UNCHANGED <<reminders, user_index, next_id, schedules,
                                            calendar, pending>>
                        ELSE IF ~event_ok
                        THEN /\ tool_reply' = [by |-> "confirm", success |-> FALSE,
                                               error |-> "error"]
                             /\ UNCHANGED <<reminders, user_index, next_id, schedules,
                                            calendar, pending>>
                        ELSE /\ PersistReminder(user_id, p.request)
                             /\ pending' = pending \ {p}
                             /\ tool_reply' = [by |-> "confirm", success |-> TRUE,
                                               error |-> ""]
            /\ CreateUnchanged

\* the confirmation ids a callback may carry
ConfirmationIds == {1, 2}

InitCreate ==
    /\ reminders = {}
    /\ user_index = [u \in Users |-> {}]
    /\ schedules = {}
    /\ next_id = 1
    /\ calendar = [u \in Users |-> <<>>]
    /\ credentials \in [Users -> {"ok", "none"}]
    /\ passes = 0
    /\ pass_users = {}
    /\ pass_log = <<>>
    /\ add_result = NoAdd
    /\ starts = 0
    /\ CreateIdle
    /\ StoreIdle
    /\ TurnIdle
    /\ WatchIdle
    /\ RetryIdle
    /\ RegistryIdle
    /\ InboundIdle
    /\ RaceIdle
    /\ LifeIdle
    /\ PersistIdle
    /\ FireIdle
    /\ WorkerIdle
    /\ FilterIdle
    /\ RateIdle
    /\ ConfirmIdle
    /\ DeleteIdle

NextCreate ==
    \/ \E u \in Users, request \in ToolRequests : CreateReminderExecute(u, request)
    \/ \E id \in ConfirmationIds, u \in Users : ConfirmReminder(id, u)

SpecCreate == InitCreate /\ [][NextCreate]_vars

(***************************************************************************)
(* _process_response of the two clients: the assistant message stored for  *)
(* a response                                                              *)
(***************************************************************************)
\* the names of the tool calls, in order
ToolNames(calls) == [i \in DOMAIN calls |-> calls[i].name]

\* assistant_message_compact of the legacy client: the content names the
\* tools used, the message has no tool_calls
CompactMsg(calls) ==
    [role |-> "assistant", kind |-> "tools_used", n |-> 0, tool_calls |-> <<>>,
     tool_call_id |-> 0, names |-> ToolNames(calls)]

\* the message handed to history.append when the response carries tool calls
StoredToolTurn(client, calls) ==
    IF client = "core" THEN AssistantToolCallsMsg(calls) ELSE CompactMsg(calls)

\* _process_response, for a response with tool calls, up to history.append
PersistToolTurn(o) ==
    \E reqs \in ToolCallLists :
        LET calls == WithIds(reqs, pt_count + 1)
        IN  /\ pt_count < MaxPersist
            /\ pt_count' = pt_count + 1
            /\ pt_calls' = calls
            /\ conversation' = [conversation EXCEPT
                                   ![o] = AppendOp(@, StoredToolTurn(pt_client, calls))]
            /\ ttl_marker' = [ttl_marker EXCEPT ![o] = TRUE]
            /\ UNCHANGED <<pt_client, msg_seq, last_op>>
            /\ UNCHANGED <<turnVars, syncVars, watchVars, retryVars, registryVars,
                           inboundVars, raceVars, lifeVars, createVars, fireVars, workerVars, filterVars, rateVars, confirmVars, deleteVars>>

\* _process_response, for a response without tool calls: the content is stored
PersistContent(o) ==
    /\ pt_count < MaxPersist
    /\ pt_count' = pt_count + 1
    /\ pt_calls' = <<>>
    /\ conversation' = [conversation EXCEPT ![o] = AppendOp(@, AssistantMsg(2 * pt_count + 2))]
    /\ ttl_marker' = [ttl_marker EXCEPT ![o] = TRUE]
    /\ UNCHANGED <<pt_client, msg_seq, last_op>>
    /\ UNCHANGED <<turnVars, syncVars, watchVars, retryVars, registryVars,
                   inboundVars, raceVars, lifeVars, createVars, fireVars, workerVars, filterVars, rateVars, confirmVars, deleteVars>>

InitPersist ==
    /\ pt_client \in {"core", "legacy"}
    /\ pt_calls = <<>>
    /\ pt_count = 0
    /\ StoreIdle
    /\ TurnIdle
    /\ SyncIdle
    /\ WatchIdle
    /\ RetryIdle
    /\ RegistryIdle
    /\ InboundIdle
    /\ RaceIdle
    /\ LifeIdle
    /\ CreateIdle
    /\ FireIdle
    /\ WorkerIdle
    /\ FilterIdle
    /\ RateIdle
    /\ ConfirmIdle
    /\ DeleteIdle

NextPersist ==
    \E o \in ConvOwners :
        \/ PersistToolTurn(o)
        \/ PersistContent(o)

SpecPersist == InitPersist /\ [][NextPersist]_vars

(***************************************************************************)
(* The reminder job: _send_reminder, the callback of every schedule.       *)
(***************************************************************************)
\* what bot.send_message and pending_storage.set_pending can do
SendOutcomes == {"sent", "send_failed", "pending_failed"}

\* the ids a job can carry: those handed out so far and the next one
JobIds == 1..(MaxReminders + 1)

\* get_reminder: the stored record of an id, none when the key is gone
GetReminder(id) ==
    IF \E r \in reminders : r.id = id
    THEN Some(CHOOSE r \in reminders : r.id = id)
    ELSE None(0)

\* the early returns: `if not reminder` and `if not reminder.get("is_active", True)`
FireSkips(id) ==
    \/ GetReminder(id).none
    \/ ~GetReminder(id).val.is_active

SendAttempt_Retried(sends, r, outcome) ==
    IF outcome = "send_failed"
    THEN sends \o <<[user_id |-> r.user_id, reminder_id |-> r.id, ok |-> FALSE],
                    [user_id |-> r.user_id, reminder_id |-> r.id, ok |-> FALSE]>>
    ELSE Append(sends, [user_id |-> r.user_id, reminder_id |-> r.id, ok |-> TRUE])
\* bot.send_message, called once inside the try
SendAttempt(sends, r, outcome) ==
    Append(sends, [user_id |-> r.user_id, reminder_id |-> r.id,
                   ok |-> outcome # "send_failed"])

\* _send_reminder: skipped, or one send, then the pending response; every
\* exception of the two is logged by the handler of the try
SendReminder(id, outcome) ==
    /\ fires < MaxFires
    /\ fires' = fires + 1
    /\ IF FireSkips(id)
       THEN /\ fire_log' = [id |-> id, found |-> ~GetReminder(id).none,
                            outcome |-> "skipped",
                            logged |-> IF GetReminder(id).none THEN "warning"
                                       ELSE "debug",
                            raised |-> FALSE]
            /\ UNCHANGED <<fire_sends, pending_response>>
       ELSE LET r == GetReminder(id).val
            IN  /\ fire_sends' = SendAttempt(fire_sends, r, outcome)
                /\ pending_response' =
                     IF outcome = "sent"
                     THEN [pending_response EXCEPT ![r.user_id] = r.id]
                     ELSE pending_response
                /\ fire_log' = [id |-> id, found |-> TRUE, outcome |-> outcome,
                                logged |-> IF outcome = "sent" THEN "info"
                                           ELSE "error",
                                raised |-> FALSE]
    /\ UNCHANGED syncVars
    /\ UNCHANGED <<storeVars, turnVars, watchVars, retryVars, registryVars,
                   inboundVars, raceVars, lifeVars, createVars, persistVars, workerVars, filterVars, rateVars, confirmVars, deleteVars>>

InitFire ==
    /\ SyncIdle
    /\ StoreIdle
    /\ TurnIdle
    /\ WatchIdle
    /\ AuxIdle

NextFire ==
    \/ \E u \in Users, request \in AcceptedRequests : AddReminder(u, request)
    \/ StartScheduler
    \/ \E id \in JobIds, outcome \in SendOutcomes : SendReminder(id, outcome)

SpecFire == InitFire /\ [][NextFire]_vars

(***************************************************************************)
(* SummarizationWorker: the expiry events of the inactivity markers, the   *)
(* loop that reads them and _summarize_conversation.                       *)
(***************************************************************************)
\* "Предыдущий диалог был суммаризирован.", returned when the LLM call raises
FallbackSummary == 90
\* "Предыдущий диалог.", returned when the response has no content
EmptySummary == 91
\* the text of a summary the LLM writes
LlmSummary == 1

\* what the chat completion of _get_summary can do
SummaryOutcomes == {"text", "empty", "raises"}

GetSummary_Propagates(outcome) ==
    CASE outcome = "text" -> [raised |-> FALSE, text |-> LlmSummary]
      [] outcome = "empty" -> [raised |-> FALSE, text |-> EmptySummary]
      [] outcome = "raises" -> [raised |-> TRUE, text |-> 0]
\* _get_summary: the content, its default when empty, the fallback on an
\* exception
GetSummary(outcome) ==
    CASE outcome = "text" -> [raised |-> FALSE, text |-> LlmSummary]
      [] outcome = "empty" -> [raised |-> FALSE, text |-> EmptySummary]
      [] outcome = "raises" -> [raised |-> FALSE, text |-> FallbackSummary]

MarkerAfterSummary_Refreshed(marker) == TRUE
\* "Save new history (no TTL - will be set when user sends message)"
MarkerAfterSummary(marker) == marker

\* the other parts of the system stand still while the worker is looked at
WorkerFrame ==
    UNCHANGED <<turnVars, syncVars, watchVars, retryVars, registryVars,
                inboundVars, raceVars, lifeVars, createVars, persistVars,
                fireVars, filterVars, rateVars, confirmVars, deleteVars>>

\* Redis expires conversation_ttl:{user_id} and publishes the event to the
\* subscribers there are at that moment
MarkerExpires(o) ==
    /\ ttl_marker[o]
    /\ expiries < MaxExpiries
    /\ expiries' = expiries + 1
    /\ ttl_marker' = [ttl_marker EXCEPT ![o] = FALSE]
    /\ wk_queue' = IF wk_up THEN Append(wk_queue, o) ELSE wk_queue
    /\ wk_expired' = [wk_expired EXCEPT ![o] = TRUE]
    /\ last_op' = Op("expired", o, conversation[o])
    /\ UNCHANGED <<conversation, msg_seq, wk_up, wk_pc, wk_user, wk_data, wk_done,
                   wk_stops>>
    /\ WorkerFrame

\* a turn of the owner: history.append of a message
WorkerTurnAppend(o) ==
    /\ msg_seq < MaxWorkerTexts
    /\ msg_seq' = msg_seq + 1
    /\ conversation' = [conversation EXCEPT ![o] = AppendOp(@, TextMsg(msg_seq + 1))]
    /\ ttl_marker' = [ttl_marker EXCEPT ![o] = TRUE]
    /\ last_op' = Op("append", o, conversation[o])
    /\ wk_expired' = [wk_expired EXCEPT ![o] = FALSE]
    /\ UNCHANGED <<wk_up, wk_queue, wk_pc, wk_user, wk_data, wk_done, expiries,
                   wk_stops>>
    /\ WorkerFrame

\* a turn of the owner: history.set_system_message
WorkerTurnPrompt(o) ==
    \E p \in Prompts :
        /\ IF conversation[o] = <<>> THEN TRUE
           ELSE conversation[o][1] # SystemMsg(p)
        /\ conversation' = [conversation EXCEPT ![o] = SetSystemOp(@, p)]
        /\ ttl_marker' = [ttl_marker EXCEPT ![o] = TRUE]
        /\ last_op' = Op("set_system_message", o, conversation[o])
        /\ wk_expired' = [wk_expired EXCEPT ![o] = FALSE]
        /\ UNCHANGED <<msg_seq, wk_up, wk_queue, wk_pc, wk_user, wk_data, wk_done,
                       expiries, wk_stops>>
        /\ WorkerFrame

\* the loop reads one event and _summarize_conversation starts: no data, too
\* little to summarize (the key is deleted), or the LLM is asked
WorkerTake ==
    /\ wk_up
    /\ wk_pc = "listening"
    /\ wk_queue # <<>>
    /\ LET o == Head(wk_queue)
           data == conversation[o]
       IN  /\ wk_queue' = Tail(wk_queue)
           /\ IF data = <<>>
              THEN /\ wk_done' = [user |-> o, llm |-> "none", result |-> "nothing"]
                   /\ UNCHANGED <<conversation, last_op, wk_pc, wk_user, wk_data>>
              ELSE IF Len(NonSystem(data)) < 2
              THEN /\ conversation' = [conversation EXCEPT ![o] = <<>>]
                   /\ last_op' = Op("delete", o, data)
                   /\ wk_done' = [user |-> o, llm |-> "none", result |-> "cleared"]
                   /\ UNCHANGED <<wk_pc, wk_user, wk_data>>
              ELSE /\ wk_pc' = "summarizing"
                   /\ wk_user' = o
                   /\ wk_data' = data
                   /\ UNCHANGED <<conversation, last_op, wk_done>>
    /\ UNCHANGED <<ttl_marker, msg_seq, wk_up, wk_expired, expiries, wk_stops>>
    /\ WorkerFrame

\* _get_summary returns and the new list is written; an exception is logged
\* by _summarize_conversation
WorkerFinish(outcome) ==
    /\ wk_up
    /\ wk_pc = "summarizing"
    /\ LET summary == GetSummary(outcome)
       IN  IF summary.raised
           THEN /\ wk_done' = [user |-> wk_user, llm |-> outcome, result |-> "error"]
                /\ UNCHANGED <<conversation, ttl_marker, last_op>>
           ELSE /\ conversation' = [conversation EXCEPT
                                      ![wk_user] = ReplaceWithSummaryOp(wk_data,
                                                                        summary.text)]
                /\ ttl_marker' = [ttl_marker EXCEPT
                                    ![wk_user] = MarkerAfterSummary(@)]
                /\ last_op' = Op("summarize", wk_user, wk_data)
                /\ wk_done' = [user |-> wk_user, llm |-> outcome,
                               result |-> "collapsed"]
    /\ wk_pc' = "listening"
    /\ wk_user' = 0
    /\ wk_data' = <<>>
    /\ UNCHANGED <<msg_seq, wk_up, wk_queue, wk_expired, expiries, wk_stops>>
    /\ WorkerFrame

\* stop, at the shutdown of the application: the task is cancelled and the
\* subscription closed, with what it held
WorkerStop ==
    /\ wk_up
    /\ wk_stops < MaxWorkerStops
    /\ wk_stops' = wk_stops + 1
    /\ wk_up' = FALSE
    /\ wk_queue' = <<>>
    /\ wk_pc' = "stopped"
    /\ wk_user' = 0
    /\ wk_data' = <<>>
    /\ UNCHANGED <<storeVars, wk_done, wk_expired, expiries>>
    /\ WorkerFrame

\* start, when the application runs again: a new subscription
WorkerStart ==
    /\ ~wk_up
    /\ wk_up' = TRUE
    /\ wk_queue' = <<>>
    /\ wk_pc' = "listening"
    /\ UNCHANGED <<storeVars, wk_user, wk_data, wk_done, wk_expired, expiries,
                   wk_stops>>
    /\ WorkerFrame

InitWorker ==
    /\ StoreIdle
    /\ TurnIdle
    /\ SyncIdle
    /\ WatchIdle
    /\ AuxIdle

NextWorker ==
    \/ \E o \in ConvOwners : MarkerExpires(o)
    \/ \E o \in ConvOwners : WorkerTurnAppend(o)
    \/ \E o \in ConvOwners : WorkerTurnPrompt(o)
    \/ \E o \in ConvOwners : StoreReplaceWithSummary(o)
    \/ WorkerTake
    \/ \E outcome \in SummaryOutcomes : WorkerFinish(outcome)
    \/ WorkerStop
    \/ WorkerStart

\* the worker's loop runs whenever it can, and a stopped application is
\* started again
SpecWorker ==
    /\ InitWorker
    /\ [][NextWorker]_vars
    /\ WF_vars(WorkerTake)
    /\ WF_vars(\E outcome \in SummaryOutcomes : WorkerFinish(outcome))
    /\ WF_vars(WorkerStart)

(***************************************************************************)
(* Weekly reminders made by the tool, written to the calendar and read     *)
(* back by the reconciliation pass.                                        *)
(***************************************************************************)
\* create_reminder called for every weekday, 0 = Monday .. 6 = Sunday
WeeklyRequests == {Request("weekly", Some(d), <<20, 0>>, IanaZone) : d \in 0..6}

NextRoundTrip ==
    \/ \E u \in Users, request \in WeeklyRequests : CreateReminderExecute(u, request)
    \/ SyncFromCalendar

SpecRoundTrip == InitCreate /\ [][NextRoundTrip]_vars

(***************************************************************************)
(* _filter_batch: the answer of the filter LLM read as text. An answer is  *)
(* a sequence of tokens: brackets, the numbers 1, 2 and 9, "t" for the     *)
(* JSON value true, "x" for a JSON value that is no integer (1.5, "a",     *)
(* null) and "p" for a word of prose; commas are left out.                 *)
(***************************************************************************)
FilterTokens == {"[", "]", "1", "2", "9", "t", "x", "p"}


\* the Python value of a JSON scalar: its number, True == 1, 0 for no integer
TokenValue(token) ==
    CASE token = "1" -> 1
      [] token = "2" -> 2
      [] token = "9" -> 9
      [] token = "t" -> 1
      [] OTHER -> 0
\* isinstance(num, int): integers, and the booleans, which are ints
IsInt(token) == token \in {"1", "2", "9", "t"}

\* content.find("[") and content.rfind("]"), 0 for -1
Find(content, token) ==
    IF \E i \in DOMAIN content : content[i] = token
    THEN CHOOSE i \in DOMAIN content :
            content[i] = token /\ \A j \in 1..(i - 1) : content[j] # token
    ELSE 0
RFind(content, token) ==
    IF \E i \in DOMAIN content : content[i] = token
    THEN CHOOSE i \in DOMAIN content :
            content[i] = token /\ \A j \in (i + 1)..Len(content) : content[j] # token
    ELSE 0

\* `content or "[]"`, then the text from the first "[" to the last "]" when
\* the content does not start with "["; None for `return []`
ExtractArray(content) ==
    LET text == IF content = <<>> THEN <<"[", "]">> ELSE content
        start == Find(text, "[")
        end == RFind(text, "]")
    IN  IF Head(text) = "[" THEN Some(text)
        ELSE IF start # 0 /\ end # 0 THEN Some(SubSeq(text, start, end))
        ELSE None(<<>>)

\* the nesting depth after the first i tokens
RECURSIVE Depth(_, _)
Depth(text, i) ==
    IF i = 0 THEN 0
    ELSE Depth(text, i - 1) + (IF text[i] = "[" THEN 1
                               ELSE IF text[i] = "]" THEN -1 ELSE 0)

\* the answers of the filter LLM: texts whose brackets are balanced
FilterOutputs ==
    {text \in UNION {[1..n -> FilterTokens] : n \in 0..MaxTokens} :
        /\ \A i \in DOMAIN text : Depth(text, i) >= 0
        /\ Depth(text, Len(text)) = 0}

\* json.loads succeeds on a text that starts with "[": one array, closed by
\* the last token, nothing that is no JSON
JsonLoads(text) ==
    /\ text # <<>>
    /\ \A i \in DOMAIN text : text[i] # "p"
    /\ \A i \in 1..(Len(text) - 1) : Depth(text, i) >= 1
    /\ Depth(text, Len(text)) = 0

\* `for num in indices`: the elements of the array that are ints in range, in
\* order; an element that is itself an array is no int
RECURSIVE Picked(_, _, _)
Picked(text, i, n) ==
    IF i > Len(text) THEN <<>>
    ELSE (IF /\ Depth(text, i) = 1
             /\ IsInt(text[i])
             /\ 1 <= TokenValue(text[i]) /\ TokenValue(text[i]) <= n
          THEN <<TokenValue(text[i])>> ELSE <<>>) \o Picked(text, i + 1, n)

\* _filter_batch from the answer on: the batch numbers whose messages it returns
FilterIndices(content, n) ==
    LET array == ExtractArray(content)
    IN  IF array.none THEN <<>>
        ELSE IF ~JsonLoads(array.val) THEN <<>>
        ELSE Picked(array.val, 1, n)

\* the LLM answers one batch and _filter_batch returns
FilterBatchStep ==
    /\ flt_pc = "asked"
    /\ flt_delivered' = FilterIndices(flt_content, BatchLen)
    /\ flt_pc' = "done"
    /\ UNCHANGED flt_content
    /\ UNCHANGED <<storeVars, turnVars, syncVars, watchVars, retryVars, registryVars,
                   inboundVars, raceVars, lifeVars, createVars, persistVars,
                   fireVars, workerVars, rateVars, confirmVars, deleteVars>>

InitFilter ==
    /\ flt_content \in FilterOutputs
    /\ flt_delivered = <<>>
    /\ flt_pc = "asked"
    /\ StoreIdle
    /\ TurnIdle
    /\ SyncIdle
    /\ WatchIdle
    /\ RetryIdle
    /\ RegistryIdle
    /\ InboundIdle
    /\ RaceIdle
    /\ LifeIdle
    /\ CreateIdle
    /\ PersistIdle
    /\ FireIdle
    /\ WorkerIdle
    /\ RateIdle
    /\ ConfirmIdle
    /\ DeleteIdle

NextFilter == FilterBatchStep

SpecFilter == InitFilter /\ [][NextFilter]_vars

(***************************************************************************)
(* The handler's rate-limit handling: chat() called again for the same     *)
(* text after a RateLimitException.                                        *)
(***************************************************************************)
\* how often a message occurs in a list
Count(hist, message) == Cardinality({i \in DOMAIN hist : hist[i] = message})

\* chat() up to _call_llm: the system prompt check, then history.append of
\* the user message
ChatStore(stored, p, text) ==
    LET fresh == IF stored = <<>> THEN TRUE ELSE stored[1] # SystemMsg(p)
        afterSys == IF fresh THEN SetSystemOp(stored, p) ELSE stored
    IN  AppendOp(afterSys, UserMsg(text))

RateFrame ==
    UNCHANGED <<turnVars, syncVars, watchVars, retryVars, registryVars,
                inboundVars, raceVars, lifeVars, createVars, persistVars,
                fireVars, workerVars, filterVars, confirmVars, deleteVars>>

\* a text message arrives and the handler enters the loop
RateReceive(o) ==
    /\ rl_pc \in {"idle", "answered", "failed"}
    /\ rl_count < MaxInbound
    /\ rl_count' = rl_count + 1
    /\ rl_text' = msg_seq + 1
    /\ msg_seq' = msg_seq + 1
    /\ rl_attempt' = 0
    /\ rl_pc' = "chat"
    /\ UNCHANGED <<conversation, ttl_marker, last_op>>
    /\ RateFrame

\* one pass of `for attempt in range(max_retries)`: chat() stores the user
\* message and calls the LLM; the reply is stored and returned, or the
\* RateLimitException is caught
RateChat(o, outcome) ==
    \E p \in Prompts :
        LET stored == ChatStore(conversation[o], p, rl_text)
        IN  /\ rl_pc = "chat"
            /\ ttl_marker' = [ttl_marker EXCEPT ![o] = TRUE]
            /\ last_op' = Op("append", o, conversation[o])
            /\ IF outcome = "ok"
               THEN /\ conversation' =
                         [conversation EXCEPT
                             ![o] = AppendOp(stored, AssistantMsg(msg_seq + 1))]
                    /\ msg_seq' = msg_seq + 1
                    /\ rl_pc' = "answered"
                    /\ UNCHANGED rl_attempt
               ELSE /\ conversation' = [conversation EXCEPT ![o] = stored]
                    /\ UNCHANGED msg_seq
                    /\ IF rl_attempt < HANDLER_MAX_RETRIES - 1
                       THEN rl_pc' = "sleeping" /\ rl_attempt' = rl_attempt + 1
                       ELSE rl_pc' = "failed" /\ UNCHANGED rl_attempt
            /\ UNCHANGED <<rl_text, rl_count>>
            /\ RateFrame

\* asyncio.sleep(e.retry_after) is over
RateWake ==
    /\ rl_pc = "sleeping"
    /\ rl_pc' = "chat"
    /\ UNCHANGED <<storeVars, rl_text, rl_attempt, rl_count>>
    /\ RateFrame

InitRate ==
    /\ conversation \in [ConvOwners -> {<<>>, Stored(0, 2), Stored(-1, 2)}]
    /\ ttl_marker = [o \in ConvOwners |-> FALSE]
    /\ msg_seq = 2
    /\ last_op = Op("none", 0, <<>>)
    /\ TurnIdle
    /\ SyncIdle
    /\ WatchIdle
    /\ AuxIdle

NextRate ==
    \/ \E o \in ConvOwners : RateReceive(o)
    \/ \E o \in ConvOwners, outcome \in {"ok", "rate_limit"} : RateChat(o, outcome)
    \/ RateWake

SpecRate == InitRate /\ [][NextRate]_vars

(***************************************************************************)
(* handle_confirm_reminder run by two handlers at a time: the callback of  *)
(* one confirmation delivered twice.                                       *)
(***************************************************************************)
ConfirmFrame ==
    /\ UNCHANGED <<credentials, passes, pass_users, pass_log, add_result, starts>>
    /\ UNCHANGED <<storeVars, turnVars, watchVars, retryVars, registryVars,
                   inboundVars, raceVars, lifeVars, persistVars, fireVars,
                   workerVars, filterVars, rateVars, deleteVars>>

\* save_pending: the data of a reminder kept under a new confirmation id
SavePending(user_id, request) ==
    /\ cf_saved < MaxPending
    /\ cf_saved' = cf_saved + 1
    /\ pending' = pending \cup
          {[id |-> cf_saved + 1, user_id |-> user_id, request |-> request]}
    /\ UNCHANGED <<reminders, user_index, next_id, schedules, calendar, tool_reply,
                   cf_pc, cf_data>>
    /\ ConfirmFrame

\* handle_confirm_reminder up to the creation: get_pending (which reads the
\* key and leaves it), the user check, the credentials
ConfirmGet(h, confirmation_id, user_id) ==
    LET found == {p \in pending : p.id = confirmation_id}
        p == IF found = {} THEN NoPending ELSE CHOOSE x \in found : TRUE
        error == IF found = {} THEN "expired"
                 ELSE IF p.user_id # user_id THEN "other_user"
                 ELSE IF credentials[user_id] # "ok" THEN "not_authorized"
                 ELSE ""
    IN  /\ cf_pc[h] \in {"idle", "done"}
        /\ IF error # ""
           THEN /\ cf_pc' = [cf_pc EXCEPT ![h] = "done"]
                /\ cf_data' = [cf_data EXCEPT ![h] = NoPending]
                /\ tool_reply' = [by |-> "confirm", success |-> FALSE, error |-> error]
                /\ UNCHANGED pending
           ELSE /\ cf_pc' = [cf_pc EXCEPT ![h] = "creating"]
                /\ cf_data' = [cf_data EXCEPT ![h] = p]
                /\ UNCHANGED <<pending, tool_reply>>
        /\ UNCHANGED <<reminders, user_index, next_id, schedules, calendar, cf_saved>>
        /\ ConfirmFrame

\* the rest of handle_confirm_reminder: create_event, save_reminder,
\* _schedule_reminder, delete_pending; an exception is reported to the user
ConfirmCreate(h, event_ok) ==
    /\ cf_pc[h] = "creating"
    /\ Cardinality(reminders) < MaxReminders
    /\ IF ~event_ok
       THEN /\ tool_reply' = [by |-> "confirm", success |-> FALSE, error |-> "error"]
            /\ UNCHANGED <<reminders, user_index, next_id, schedules, calendar, pending>>
       ELSE /\ PersistReminder(cf_data[h].user_id, cf_data[h].request)
            /\ pending' = {p \in pending : p.id # cf_data[h].id}
            /\ tool_reply' = [by |-> "confirm", success |-> TRUE, error |-> ""]
    /\ cf_pc' = [cf_pc EXCEPT ![h] = "done"]
    /\ cf_data' = [cf_data EXCEPT ![h] = NoPending]
    /\ UNCHANGED cf_saved
    /\ ConfirmFrame

NextConfirm ==
    \/ \E u \in Users, request \in AcceptedRequests : SavePending(u, request)
    \/ \E h \in ConfirmHandlers, id \in 1..MaxPending, u \in Users : ConfirmGet(h, id, u)
    \/ \E h \in ConfirmHandlers, event_ok \in BOOLEAN : ConfirmCreate(h, event_ok)

SpecConfirm == InitCreate /\ [][NextConfirm]_vars

(***************************************************************************)
(* WatcherStorage under the delete_watcher tool of the summaries server    *)
(* and the update_last_check of a tick, which run in two processes.        *)
(***************************************************************************)
DeleteFrame ==
    UNCHANGED <<storeVars, turnVars, syncVars, watchVars, retryVars, registryVars,
                inboundVars, raceVars, lifeVars, createVars, persistVars,
                fireVars, workerVars, filterVars, rateVars, confirmVars>>

\* create_watcher: a record under an id never used before, indexed under its user
StoreWatcher(user_id, id) ==
    /\ ~wd_records[id].exists
    /\ id \notin wd_deleted
    /\ wd_records' = [wd_records EXCEPT
                        ![id] = [exists |-> TRUE, user_id |-> user_id,
                                 last_check_at |-> 0]]
    /\ wd_index' = [wd_index EXCEPT ![user_id] = @ \cup {id}]
    /\ UNCHANGED <<wd_update, wd_deleted, wd_last_delete>>
    /\ DeleteFrame

\* the delete_watcher tool called for `caller` (the user_id the registry
\* injects) with a watcher id: WatcherStorage.delete_watcher(watcher_id),
\* in which the caller takes no part
DeleteWatcher(caller, id) ==
    LET watcher == wd_records[id]
        deleted == watcher.exists
    IN  /\ wd_last_delete' = [caller |-> caller, id |-> id,
                              owner |-> watcher.user_id, deleted |-> deleted]
        /\ IF deleted
           THEN /\ wd_records' = [wd_records EXCEPT ![id] = NoRecord]
                /\ wd_index' = [wd_index EXCEPT ![watcher.user_id] = @ \ {id}]
                /\ wd_deleted' = wd_deleted \cup {id}
           ELSE UNCHANGED <<wd_records, wd_index, wd_deleted>>
        /\ UNCHANGED wd_update
        /\ DeleteFrame

\* update_last_check, first half: get_watcher, False when there is no record
UpdateLastCheckGet(id) ==
    /\ wd_update.pc = "idle"
    /\ wd_records[id].exists
    /\ wd_records[id].last_check_at < MaxChecks
    /\ wd_update' = [pc |-> "read", id |-> id, watcher |-> wd_records[id]]
    /\ UNCHANGED <<wd_records, wd_index, wd_deleted, wd_last_delete>>
    /\ DeleteFrame

\* update_last_check, second half: redis.set of the record read, changed
WriteBackWatcher(records, id, watcher) ==
    [records EXCEPT ![id] = [watcher EXCEPT !.last_check_at = @ + 1]]

UpdateLastCheckSet ==
    /\ wd_update.pc = "read"
    /\ wd_records' = WriteBackWatcher(wd_records, wd_update.id, wd_update.watcher)
    /\ wd_update' = NoUpdate
    /\ UNCHANGED <<wd_index, wd_deleted, wd_last_delete>>
    /\ DeleteFrame

InitDelete ==
    /\ StoreIdle
    /\ TurnIdle
    /\ SyncIdle
    /\ WatchIdle
    /\ AuxIdle

NextDelete ==
    \/ \E u \in Users, id \in WatcherKeys : StoreWatcher(u, id)
    \/ \E u \in Users, id \in WatcherKeys : DeleteWatcher(u, id)
    \/ \E id \in WatcherKeys : UpdateLastCheckGet(id)
    \/ UpdateLastCheckSet

SpecDelete == InitDelete /\ [][NextDelete]_vars

(***************************************************************************)
(* Properties                                                              *)
(***************************************************************************)

LastOf(seq) == seq[Len(seq)]

TurnEnded == pc \in {"done", "replied"}

\* C1 (as stated): a turn that ends at the depth cutoff has made exactly 6
\* LLM calls.
C1_SixCalls == exit = "depth_cutoff" => llm_calls = MAX_DEPTH + 1

\* C1 (amended): no turn makes more than 7 LLM calls; a turn ends at the
\* depth cutoff exactly when its 7th LLM call returns (the responses of calls
\* 1..6 were processed at depths 0..5 and all asked for non-terminal tools,
\* the 7th response is discarded), and it then returns the fixed apology.
C1_SevenCalls ==
    /\ llm_calls <= MAX_DEPTH + 2
    /\ exit = "depth_cutoff" =>
          /\ llm_calls = MAX_DEPTH + 2
          /\ depth = MAX_DEPTH + 1
          /\ reply = [type |-> "apology", n |-> 0]
    /\ (TurnEnded /\ llm_calls = MAX_DEPTH + 2) => exit = "depth_cutoff"

C1_Witness ==
    /\ pc = "replied"
    /\ exit = "depth_cutoff"
    /\ LastOf(sent).kind = "apology"

\* C2 (as stated): an append to a list at the cap keeps a system message
\* that is stored at index 0 at index 0.
C2_SystemMessageKept ==
    [][\A o \in ConvOwners :
          (/\ last_op'.op = "append"
           /\ last_op'.owner = o
           /\ Len(conversation[o]) >= MAX_HISTORY
           /\ conversation[o][1].role = "system")
          => (/\ Len(conversation'[o]) > 0
              /\ conversation'[o][1] = conversation[o][1])]_vars

\* C3: after an append or an append_many the stored list of the owner, which
\* is what get returns, has at most 50 messages.
C3_AppendBounded ==
    \A o \in ConvOwners :
        (last_op.op \in {"append", "append_many"} /\ last_op.owner = o)
        => Len(conversation[o]) <= MAX_HISTORY

C3_Witness ==
    /\ last_op.op \in {"append", "append_many"}
    /\ last_op.pre_len >= MAX_HISTORY
    /\ Len(conversation[last_op.owner]) = MAX_HISTORY

\* C4 (as stated): the stored list of an owner never has more than 50
\* messages, whatever store operations were applied.
C4_StoreNeverExceedsCap ==
    \A o \in ConvOwners : Len(conversation[o]) <= MAX_HISTORY

\* C5: a rate-limit answer of the provider, at any depth of the loop, is the
\* last provider call of the turn and leaves chat() as RateLimitException; on
\* the first attempt of the first LLM call it is the only provider call.
C5_RateLimitPropagates ==
    /\ \A i \in DOMAIN llm_trace :
          llm_trace[i] = "rate_limit"
          => /\ i = Len(llm_trace)
             /\ raised = "RateLimitException"
             /\ pc \notin {"call_llm", "done"}
    /\ (llm_calls = 1 /\ llm_trace # <<>> /\ llm_trace[1] = "rate_limit")
          => (Len(llm_trace) = 1 /\ raised = "RateLimitException")

C5_Witness ==
    /\ raised = "RateLimitException"
    /\ llm_calls > 2
    /\ Len(llm_trace) > 1
    /\ \E m \in Range(history) : m.role = "tool"

TerminalExecuted == \E i \in DOMAIN last_exec : last_exec[i].name = "respond_to_user"

Registered == LocalTools \cup McpTools

UnknownExecuted == \E i \in DOMAIN last_exec : last_exec[i].name \notin Registered

\* C7 (as stated): a tool call with an unregistered name is a hard error that
\* leaves the turn.
C7_UnknownToolFatal == UnknownExecuted => pc = "raised"

\* C7 (amended): for a tool call with an unregistered name the registry
\* raises, the loop converts the error into a tool-result error envelope for
\* that call, and nothing is raised out of the turn.
C7_UnknownToolEnvelope ==
    \A i \in DOMAIN last_exec :
        last_exec[i].name \notin Registered =>
            /\ last_exec[i].raised
            /\ ToolMsg(last_exec[i].id, "envelope") \in Range(history)
            /\ raised = "none"
            /\ pc # "raised"

C7_Witness ==
    /\ UnknownExecuted
    /\ pc = "call_llm"
    /\ LastOf(history).role = "tool"

\* C8: when a remote tool returns the not_authorized sentinel the turn ends
\* with the auth_required reply, which is sent as the fixed message; no tool
\* message for that call reaches the LLM's history or the store, and no
\* further LLM call is made.
C8_NotAuthorizedShortCircuit ==
    \A i \in DOMAIN last_exec :
        last_exec[i].error = "not_authorized" =>
            /\ TurnEnded
            /\ exit = "auth_required"
            /\ reply.type = "auth_required"
            /\ llm_calls = depth + 1
            /\ \A m \in Range(conversation[turn_owner]) \cup Range(history) :
                  m.tool_call_id # last_exec[i].id
            /\ pc = "replied" => LastOf(sent).kind = "AUTH_REQUIRED_MESSAGE"

C8_Witness ==
    /\ pc = "replied"
    /\ exit = "auth_required"
    /\ Len(last_exec) = 2
    /\ LastOf(sent).kind = "AUTH_REQUIRED_MESSAGE"

\* the event id the reconciliation files an item under
EventIdOf(item) == IF item.recurringEventId # 0 THEN item.recurringEventId ELSE item.id

\* the item is an occurrence of a tagged daily event starting at 20:00
DailyAt20(item) ==
    /\ ~item.description.none
    /\ StartsWithTag(item.description.val)
    /\ Strip(Tail(item.description.val)) # <<>>
    /\ ~item.start.dateTime.none
    /\ item.start.dateTime.val.form = "offset"
    /\ item.start.dateTime.val.hour = 20
    /\ item.start.dateTime.val.minute = 0
    /\ \/ item.recurrence.none
       \/ \A i \in DOMAIN item.recurrence.val :
              ~Contains(<<"W","E","E","K","L","Y">>, item.recurrence.val[i])

\* the calendar holds one tagged daily event at 20:00 and nothing else
SingleDailyEvent(items) ==
    /\ items # <<>>
    /\ \A i \in DOMAIN items :
          DailyAt20(items[i]) /\ EventIdOf(items[i]) = EventIdOf(items[1])

\* the last pass read the calendar of u and of no other user
OnlyCalendarRead(u) ==
    /\ u \in pass_users
    /\ credentials[u] = "ok"
    /\ \A v \in pass_users \ {u} : credentials[v] # "ok" \/ calendar[v] = <<>>

\* C9: two consecutive reconciliation passes over an unchanged calendar leave
\* the same jobs (by recurrence, time and payload, with the same counts), and
\* a calendar holding a single tagged daily event at 20:00 leaves exactly one
\* persisted job after each pass.
C9_ReconcileDeterministic ==
    pass_log # <<>> =>
        /\ Len(pass_log) >= 2 =>
              pass_log[Len(pass_log)] = pass_log[Len(pass_log) - 1]
        /\ \A u \in Users :
              OnlyCalendarRead(u) /\ SingleDailyEvent(calendar[u]) =>
                  Cardinality(reminders) = 1

Cursor(w, c) == watchers[w].last_message_ids[c]

FetchedIds(w, c) == {m.id : m \in {x \in last_tick[w].fetched : x.chat = c}}

\* what a successful tick leaves: every fetched id is above the cursor the
\* tick started from, the cursor is the newest fetched id whatever was sent,
\* only fetched messages are sent, and nothing ever fetched is above the cursor
TickAdvanced ==
    \A w \in WatcherIds :
        /\ last_tick[w].ok =>
              /\ last_tick[w].sent \subseteq last_tick[w].fetched
              /\ \A c \in Chats :
                    /\ \A id \in FetchedIds(w, c) : id > last_tick[w].pre[c]
                    /\ FetchedIds(w, c) # {} =>
                          /\ Cursor(w, c) \in FetchedIds(w, c)
                          /\ \A id \in FetchedIds(w, c) : id <= Cursor(w, c)
        /\ \A m \in seen[w] : m.id <= Cursor(w, m.chat)

\* C10: the stored cursor of every watcher target never decreases, a tick
\* that fetched messages leaves the cursor at the newest fetched id whether
\* or not the filter matched any, and no tick fetches a message that an
\* earlier tick of the watcher fetched.
C10_CursorMonotone ==
    [][/\ \A w \in WatcherIds, c \in Chats :
             watchers[w].exists =>
                 watchers'[w].last_message_ids[c] >= watchers[w].last_message_ids[c]
       /\ TickAdvanced'
       /\ refetched' = {}]_vars

\* a tick that started from cursor c >= 1, fetched c+1, c+2, c+3, sent
\* nothing and left the cursor at c+3
C10_Witness ==
    \E w \in WatcherIds, c \in Chats :
        LET pre == last_tick[w].pre[c]
        IN  /\ last_tick[w].ok
            /\ pre >= 1
            /\ FetchedIds(w, c) = {pre + 1, pre + 2, pre + 3}
            /\ last_tick[w].sent = {}
            /\ Cursor(w, c) = pre + 3

TransientErrors == {"APITimeoutError", "APIConnectionError"}

AllTransient == \A i \in DOMAIN rh_outcomes : rh_outcomes[i].kind \in TransientErrors

\* C11: the wrapped call is invoked at most max_retries + 1 times; the sleep
\* after attempt number a is min(base_delay * 2^a, max_delay); when every
\* attempt fails with a transient error there is one sleep per retry and the
\* invocation number max_retries + 1 ends execute with the last error.
C11_TransientRetries ==
    /\ Len(rh_outcomes) <= rh_config.max_retries + 1
    /\ \A i \in DOMAIN rh_sleeps :
          rh_sleeps[i] = Min2(rh_config.base_delay * Pow2(i - 1), rh_config.max_delay)
    /\ (rh_outcomes # <<>> /\ AllTransient) =>
          /\ Len(rh_sleeps) = Min2(Len(rh_outcomes), rh_config.max_retries)
          /\ IF Len(rh_outcomes) = rh_config.max_retries + 1
             THEN /\ rh_state = "raised"
                  /\ rh_raised.kind = rh_outcomes[Len(rh_outcomes)].kind
             ELSE rh_state = "running"

\* four transient failures with base_delay 20: sleeps 20, 40 and the capped 60
C11_Witness ==
    /\ rh_config.max_retries = MAX_RETRIES
    /\ AllTransient
    /\ Len(rh_outcomes) = MAX_RETRIES + 1
    /\ rh_sleeps = <<20, 40, 60>>
    /\ rh_state = "raised"
    /\ rh_raised.kind = "APIConnectionError"

\* C12: a rate-limit error of the wrapped call, on whatever attempt, is the
\* last invocation: execute has raised RateLimitException and has neither
\* slept for it nor called again.
C12_RateLimitNeverRetried ==
    \A i \in DOMAIN rh_outcomes :
        rh_outcomes[i].kind = "RateLimitError" =>
            /\ i = Len(rh_outcomes)
            /\ rh_state = "raised"
            /\ rh_raised.kind = "RateLimitException"
            /\ Len(rh_sleeps) = i - 1

\* a rate-limit error on the third invocation, after two transient failures
C12_Witness ==
    /\ Len(rh_outcomes) = 3
    /\ rh_outcomes[1].kind \in TransientErrors
    /\ rh_outcomes[2].kind \in TransientErrors
    /\ rh_outcomes[3].kind = "RateLimitError"
    /\ rh_state = "raised"

LastHint == rh_outcomes[Len(rh_outcomes)].hint

\* C13 as stated: retry_after is the provider's hint when there is one and
\* rate_limit_delay otherwise.
C13_RetryAfterIsHint ==
    rh_raised.kind = "RateLimitException" =>
        rh_raised.retry_after =
            IF LastHint.response /\ LastHint.header /\ LastHint.numeric
            THEN LastHint.val
            ELSE rh_config.rate_limit_delay

\* C13: retry_after is min(hint, max_delay) when the retry-after header is a
\* number of seconds, and rate_limit_delay when there is no response, no
\* header, an empty header or a header that is no number.
C13_RetryAfterCapped ==
    rh_raised.kind = "RateLimitException" =>
        rh_raised.retry_after =
            IF LastHint.response /\ LastHint.header /\ LastHint.numeric
            THEN Min2(LastHint.val, rh_config.max_delay)
            ELSE rh_config.rate_limit_delay

\* a hint of 120 seconds answered with retry_after 60
C13_Witness ==
    /\ rh_raised.kind = "RateLimitException"
    /\ LastHint = SecondsHeader(120)
    /\ rh_raised.retry_after = 60

SystemAt(hist) == {i \in DOMAIN hist : hist[i].role = "system"}

\* C14: a stored list never holds more than one system message, a system
\* message is at index 0, and right after set_system_message the list holds
\* exactly one, at index 0.
C14_OneSystemMessage ==
    \A o \in ConvOwners :
        /\ SystemAt(conversation[o]) \subseteq {1}
        /\ (last_op.op = "set_system_message" /\ last_op.owner = o)
              => SystemAt(conversation[o]) = {1}

\* set_system_message on a list that already began with a system message
\* followed by two other messages
C14_Witness ==
    \E o \in ConvOwners :
        /\ last_op.op = "set_system_message"
        /\ last_op.owner = o
        /\ last_op.pre_len = 3
        /\ Len(conversation[o]) = 3
        /\ SystemAt(conversation[o]) = {1}

Roles(hist) == [i \in DOMAIN hist |-> hist[i].role]

IsSummary(m) == m.role = "assistant" /\ m.kind = "summary"

\* C15: what replace_with_summary leaves is the first system message of the
\* list it found (when there was one) followed by exactly one assistant
\* summary message, and applied to a list it has just left it leaves a list
\* of the same shape.
C15_SummaryCollapse ==
    [][\A o \in ConvOwners :
          (last_op'.op = "replace_with_summary" /\ last_op'.owner = o) =>
              LET before == conversation[o]
                  after == conversation'[o]
              IN  /\ IsSummary(after[Len(after)])
                  /\ IF SystemAt(before) = {}
                     THEN Len(after) = 1
                     ELSE /\ Len(after) = 2
                          /\ after[1] = before[CHOOSE i \in SystemAt(before) :
                                                  \A j \in SystemAt(before) : i <= j]
                  /\ (last_op.op = "replace_with_summary" /\ last_op.owner = o)
                        => Roles(after) = Roles(before)]_vars

\* replace_with_summary applied to the list [system, summary] when no text
\* message was ever stored: the list it found was left by replace_with_summary
C15_Witness ==
    \E o \in ConvOwners :
        /\ last_op.op = "replace_with_summary"
        /\ last_op.owner = o
        /\ last_op.pre_len = 2
        /\ msg_seq = 0
        /\ conversation[o] = <<SystemMsg(0), SummaryMsg(1)>>

\* C16: what the remote executor received carries the caller's owner id under
\* user_id, whatever the LLM supplied under that key, and the other arguments
\* as supplied; no schema listed by get_all_tools names user_id.
C16_OwnerInjected ==
    /\ remote_call.name # "" =>
          /\ remote_call.arguments["user_id"] = remote_call.caller
          /\ \A k \in DOMAIN remote_call.supplied \ {"user_id"} :
                remote_call.arguments[k] = remote_call.supplied[k]
          /\ DOMAIN remote_call.arguments = DOMAIN remote_call.supplied \cup {"user_id"}
    /\ \A i \in DOMAIN tool_listing :
          /\ "user_id" \notin tool_listing[i].properties
          /\ "user_id" \notin tool_listing[i].required

\* user 1 called a remote tool with a user_id of 2 supplied by the LLM, and
\* the listing shows a remote tool whose inputSchema required user_id
C16_Witness ==
    /\ remote_call.name = "get_tasks"
    /\ remote_call.caller = 1
    /\ remote_call.supplied = Args2("x", 5, "user_id", 2)
    /\ remote_call.arguments["user_id"] = 1
    /\ \E i \in DOMAIN tool_listing :
          /\ tool_listing[i] = Tool("get_tasks", {"x"}, {"x"})
          /\ \E j \in DOMAIN mcp_all_tools :
                /\ mcp_all_tools[j].name = "get_tasks"
                /\ "user_id" \in mcp_all_tools[j].schema.required

\* C17 as stated: the schemas listed by get_all_tools have pairwise distinct
\* names and respond_to_user is listed exactly once, whatever the servers
\* expose.
C17_DistinctToolNames ==
    tool_listing # <<>> =>
        /\ \A i, j \in DOMAIN tool_listing :
              tool_listing[i].name = tool_listing[j].name => i = j
        /\ Cardinality({i \in DOMAIN tool_listing :
                           tool_listing[i].name = "respond_to_user"}) = 1

\* C18 as stated: every inbound text turn is eventually answered with at
\* least one text, the answer or the generic error text; no exception ends
\* the turn without a reply.
C18_EveryTurnAnswered == (~HandlerEnded) ~> (in_answers # <<>>)

\* the recurrences add_reminder is to refuse: weekly without a weekday, or a
\* time that is not HH:MM
BadRecurrence(request) ==
    \/ request.schedule_type = "weekly" /\ request.weekday.none
    \/ ~TimeParses(request.time)

\* C19 as stated: an add_reminder call with a weekly recurrence without a
\* weekday, or with a time that does not parse as HH:MM, persists no job and
\* registers no trigger.
C19_BadRecurrenceNotPersisted ==
    [][(add_result'.raised # "none" /\ BadRecurrence(add_result'.request))
          => (reminders' = reminders /\ schedules' = schedules)]_vars

\* C20 as stated: when the start of the process has restored the reminders,
\* the registered triggers are those of the persisted active jobs.
C20_RestoreRegistersAll ==
    [][starts' # starts =>
          {sch.id : sch \in schedules'} = {r.id : r \in {x \in reminders' : x.is_active}}]_vars

\* an event the pass can turn into a job: tagged, with a template, a start
\* with an offset and a recurrence list
SchedulableEvent(event) ==
    /\ ~event.description.none
    /\ StartsWithTag(event.description.val)
    /\ Strip(Tail(event.description.val)) # <<>>
    /\ ~event.start.none
    /\ event.start.val.form = "offset"
    /\ ~event.recurrence.none

\* C21 as stated: in a reconcile pass an event that fails is the only one
\* skipped: every other event of the owners of the pass that can be turned
\* into a job, the remaining events of the same owner included, has its job.
C21_MisfireSkipsOnlyThatJob ==
    pass_log # <<>> =>
        \A u \in pass_users :
            credentials[u] = "ok" =>
                \A i \in DOMAIN ListEvents(calendar[u]) :
                    LET event == ListEvents(calendar[u])[i]
                    IN  SchedulableEvent(event) =>
                            \E r \in reminders :
                                r.calendar_event_id =
                                    IF event.recurring_event_id # 0
                                    THEN event.recurring_event_id ELSE event.id

RaceDone == \A t \in Tasks : task_pc[t] = "done"
TaskMessages == {TaskUserMsg(t) : t \in Tasks} \cup {TaskReplyMsg(t) : t \in Tasks}
InStore(message) == \E i \in DOMAIN conversation[RaceOwner] :
                      conversation[RaceOwner][i] = message

\* C22: two turns of one owner are not serialized and the last write wins:
\* when both have ended, the list ends with the reply written last, and a
\* message one of them appended can be absent, which happens only when an
\* append read the list while another append was between its get and set.
C22_LastWriteWins ==
    RaceDone =>
        /\ conversation[RaceOwner] # <<>>
        /\ conversation[RaceOwner][Len(conversation[RaceOwner])]
              \in {TaskReplyMsg(t) : t \in Tasks}
        /\ ~overlapped => \A message \in TaskMessages : InStore(message)

\* both turns have ended and the user message of one of them is not stored
C22_Witness ==
    /\ RaceDone
    /\ overlapped
    /\ ~InStore(TaskUserMsg(1))
    /\ InStore(TaskUserMsg(2))

\* C23: once the store connection is closed every background task of the
\* lifespan has ended, and none has done a store operation on the closed
\* connection.
C23_TasksEndBeforeClose ==
    ~redis_open =>
        /\ \A t \in Range(CleanupOrder(life_variant)) : bg_pc[t] = "ended"
        /\ late_ops = {}

\* the connection is closed after the summarization worker was cancelled in
\* the middle of its work and ran its finally block
C23_Witness ==
    /\ ~redis_open
    /\ life_variant = "app"
    /\ bg_interrupted["summarization"] = "working"
    /\ bg_pc["summarization"] = "ended"

\* C24 as stated: a call of the reminder-creation tool persists no job and
\* registers no trigger; jobs appear only through the confirmation.
C24_ToolPersistsNothing ==
    [][tool_reply'.by = "tool" => (reminders' = reminders /\ schedules' = schedules)]_vars

\* C27 as stated: when chat() has appended the user message, the stored
\* list of the owner has the prompt computed for this turn at index 0 and no
\* other system message.
C27_FreshPromptAtIndexZero ==
    (pc = "call_llm" /\ llm_calls = 0) =>
        LET stored == conversation[turn_owner]
        IN  /\ stored # <<>>
            /\ history[1].role = "system"
            /\ stored[1] = history[1]
            /\ \A i \in 2..Len(stored) : stored[i].role # "system"

\* C26 as stated: the assistant message stored for a response with tool
\* calls carries the id, the name and the arguments of every tool call.
C26_FullToolCallsStored ==
    pt_calls # <<>> =>
        \A o \in ConvOwners :
            LET stored == conversation[o]
            IN  /\ stored # <<>>
                /\ stored[Len(stored)].role = "assistant"
                /\ stored[Len(stored)].tool_calls = pt_calls

\* C30: a job fired on a reminder that is missing or inactive sends nothing and
\* changes no stored state; fired on an active reminder it makes exactly one
\* send attempt, and a failed send is logged, not tried again and not raised.
C30_FireSendsOnce ==
    [][fires' # fires =>
         /\ ~fire_log'.raised
         /\ reminders' = reminders /\ schedules' = schedules
         /\ IF FireSkips(fire_log'.id)
            THEN fire_sends' = fire_sends /\ pending_response' = pending_response
            ELSE /\ Len(fire_sends') = Len(fire_sends) + 1
                 /\ fire_log'.outcome = "send_failed" =>
                      /\ fire_log'.logged = "error"
                      /\ pending_response' = pending_response]_vars
\* a job found its reminder gone, and a job's send failed
C30_Witness ==
    /\ fires = 2
    /\ Len(fire_sends) = 1
    /\ ~fire_sends[1].ok
    /\ fire_log.outcome = "skipped"

\* the first system message of a list, as a list of at most one message
FirstSystem(hist) ==
    LET sys == SelectSeq(hist, LAMBDA m : m.role = "system")
    IN  IF Len(sys) > 0 THEN <<sys[1]>> ELSE <<>>

\* C25: when the LLM call of the summarization fails, the conversation is still
\* collapsed to the system message (if any) and the generic fallback summary,
\* and no exception leaves the worker.
C25_FallbackSummaryOnFailure ==
    [][(wk_pc = "summarizing" /\ wk_pc' = "listening" /\ wk_done'.llm = "raises") =>
         /\ wk_done'.result = "collapsed"
         /\ conversation'[wk_user] =
              FirstSystem(wk_data) \o <<SummaryMsg(FallbackSummary)>>
         /\ wk_up']_vars
\* a conversation with a system message and two texts was collapsed after
\* the LLM call failed
C25_Witness ==
    /\ wk_done = [user |-> 1, llm |-> "raises", result |-> "collapsed"]
    /\ Len(conversation[1]) = 2
    /\ conversation[1][1].role = "system"
    /\ conversation[1][2] = SummaryMsg(FallbackSummary)

\* the list is the system message (if any) and one summary, or is empty
Collapsed(o) ==
    \/ conversation[o] = <<>>
    \/ /\ Len(NonSystem(conversation[o])) = 1
       /\ NonSystem(conversation[o])[1].kind = "summary"
       /\ Len(conversation[o]) <= 2

\* C28: once an owner's marker has expired, either a new turn arrives or the
\* conversation is eventually collapsed or cleared.
C28_ExpiryCollapses ==
    \A o \in ConvOwners :
        (wk_expired[o] /\ ~Collapsed(o)) ~> (~wk_expired[o] \/ Collapsed(o))

\* C29: replacing the list with a summary leaves the marker as it was, and a
\* marker that was absent exists again only through append or
\* set_system_message.
C29_SummaryLeavesMarker ==
    [][/\ ( /\ last_op'.op \in {"replace_with_summary", "summarize"}
            /\ (last_op' # last_op \/ conversation' # conversation) )
          => ttl_marker' = ttl_marker
       /\ \A o \in ConvOwners :
            (~ttl_marker[o] /\ ttl_marker'[o]) =>
               last_op'.op \in {"append", "set_system_message"}]_vars
\* the worker collapsed a conversation whose marker had expired, and no
\* marker exists
C29_Witness ==
    /\ wk_done.result = "collapsed"
    /\ last_op.op = "summarize"
    /\ ~ttl_marker[1]
    /\ Collapsed(1)
    /\ conversation[1] # <<>>

\* C33: a message appended by a turn while the worker is between reading and
\* rewriting the owner's list is still in the stored list when the worker has
\* finished.
C33_RewriteKeepsConcurrentAppend ==
    [][(wk_pc = "summarizing" /\ wk_pc' = "listening" /\ wk_up') =>
         \A message \in Range(NonSystem(conversation[wk_user])) :
            message \notin Range(wk_data) =>
               message \in Range(conversation'[wk_user])]_vars

\* C35: a weekly reminder made for weekday d and written to the calendar as a
\* weekly rule for that day comes back from the reconciliation pass as a
\* weekly job with the same weekday d.
C35_WeekdayRoundTrip ==
    [][passes' = passes + 1 =>
         \A r \in reminders, imported \in reminders' :
            (/\ r.calendar_event_id # 0
             /\ imported.calendar_event_id = r.calendar_event_id
             /\ imported.user_id = r.user_id) =>
               /\ imported.schedule_type = r.schedule_type
               /\ imported.weekday = r.weekday]_vars

\* C40: a tick whose fetch for a watcher fails leaves the watcher's cursors and
\* last_check_at as they were and delivers nothing for it.
C40_FailedFetchChangesNothing ==
    [][\A w \in WatcherIds :
          (last_tick'[w].ran /\ ~last_tick'[w].ok) =>
             /\ watchers'[w] = watchers[w]
             /\ last_tick'[w].sent = {}]_vars
\* a watcher checked before, with a cursor and unread messages behind it,
\* whose last fetch failed
C40_Witness ==
    \E w \in WatcherIds :
        /\ last_tick[w].ran /\ ~last_tick[w].ok
        /\ watchers[w].last_check_at = "set"
        /\ \E c \in Chats : /\ watchers[w].last_message_ids[c] > 0
                            /\ Len(chat_log[c]) > watchers[w].last_message_ids[c]

\* the first bracketed span of an answer, None when there is none
FirstSpan(content) ==
    LET start == Find(content, "[")
        rest == IF start = 0 THEN <<>> ELSE SubSeq(content, start, Len(content))
        end == Find(rest, "]")
    IN  IF start = 0 \/ end = 0 THEN None(<<>>) ELSE Some(SubSeq(rest, 2, end - 1))
\* the batch numbers named by the first bracketed array of an answer: nothing
\* when there is no array or the span is no array of JSON values, and nothing
\* for an element that is no integer or is out of range
NamedInFirstArray(content) ==
    LET span == FirstSpan(content)
    IN  IF span.none \/ (\E i \in DOMAIN span.val : span.val[i] \in {"[", "p"})
        THEN {}
        ELSE {TokenValue(span.val[i]) : i \in DOMAIN span.val} \cap 1..BatchLen

\* C31: the messages delivered for a batch are exactly those whose numbers are
\* in the first bracketed array of the answer, whatever prose surrounds it.
C31_DeliveredAreFirstArray ==
    flt_pc = "done" => Range(flt_delivered) = NamedInFirstArray(flt_content)

\* C34: when the handler has tried a turn again after a rate-limit signal and
\* the turn is answered, the inbound user message is in the stored history
\* exactly once.
C34_UserMessageStoredOnce ==
    \A o \in ConvOwners :
        (rl_pc = "answered" /\ rl_attempt > 0) =>
            Count(conversation[o], UserMsg(rl_text)) = 1

\* the tool call at position i of a list has its tool message later in the list
Answered(hist, i, id) ==
    \E j \in (i + 1)..Len(hist) :
        hist[j].role = "tool" /\ hist[j].tool_call_id = id

\* C32: when a turn has ended, every stored assistant message with tool calls
\* is followed by one tool message for each of its tool call ids.
C32_ToolCallsAnswered ==
    pc \in {"done", "replied"} =>
        \A i \in DOMAIN conversation[turn_owner] :
            LET message == conversation[turn_owner][i]
            IN  \A k \in DOMAIN message.tool_calls :
                    Answered(conversation[turn_owner], i, message.tool_calls[k].id)

\* C36: an owner whose credential lookup fails during a reconciliation pass
\* still has jobs after the pass, and so is scanned by the next pass.
C36_FailedOwnerKeepsJobs ==
    [][passes' = passes + 1 =>
         \A u \in Users :
            (/\ credentials[u] # "ok"
             /\ \E r \in reminders : r.user_id = u /\ r.is_active) =>
               \E r \in reminders' : r.user_id = u /\ r.is_active]_vars

\* C38: one pending confirmation gives at most one stored reminder and at most
\* one calendar event, however the handlers of its callbacks interleave.
C38_OneReminderPerConfirmation ==
    /\ Cardinality(reminders) <= cf_saved
    /\ \A u \in Users : Len(calendar[u]) <= cf_saved

\* C37: once delete_watcher has returned true for an id, no record with that
\* id exists in the store at any later time.
C37_DeletedStaysDeleted ==
    \A id \in wd_deleted : ~wd_records[id].exists

\* C39: a delete_watcher call made for one owner never deletes a watcher of
\* another owner.
C39_DeleteOnlyOwn ==
    wd_last_delete.deleted => wd_last_delete.owner = wd_last_delete.caller

====
